---- MODULE Spec2Model ----
(***************************************************************************)
(* A model of pyyaml-include (package yaml_include): the include tag       *)
(* handler Constructor.__call__, the resolver Constructor.load, the scoped *)
(* toggle Constructor.managed_autoload, the tree walkers funcs.load and    *)
(* funcs.lazy_load, and Representer.__call__.                              *)
(*                                                                         *)
(* Text is modelled as a sequence of one-character strings, so that the    *)
(* scheme test, the wildcard test and path joining are computed on the     *)
(* characters as the code computes them.                                   *)
(***************************************************************************)
EXTENDS Integers, Sequences, FiniteSets, TLC

(***************************************************************************)
(* Bounds                                                                  *)
(***************************************************************************)
\* longest include target enumerated by the resolution specification
MaxLen == 3

(***************************************************************************)
(* Characters and text                                                     *)
(***************************************************************************)
\* "\n" stands for a line break; "a" for a letter; the others are themselves
Chars == {"a", "/", ":", "*", "?", ".", "\n"}

Texts(n) == UNION {[1..m -> Chars] : m \in 0..n}

\* s[from..] , 1-based, empty when from > Len(s)
Drop(s, from) == SubSeq(s, from, Len(s))

\* 1-based index of the first occurrence of a character of cs in s, 0 if none
FindAny(s, cs) ==
    IF \E i \in 1..Len(s) : s[i] \in cs
    THEN CHOOSE i \in 1..Len(s) : s[i] \in cs /\ \A j \in 1..(i-1) : s[j] \notin cs
    ELSE 0

RECURSIVE LStrip(_, _)
\* str.lstrip(cs)
LStrip(s, cs) == IF s # <<>> /\ Head(s) \in cs THEN LStrip(Tail(s), cs) ELSE s

\* str.replace(c, "") for every c in cs
Remove(s, cs) == SelectSeq(s, LAMBDA c : c \notin cs)

\* "/".join(parts)
RECURSIVE JoinSlash(_)
JoinSlash(parts) ==
    IF parts = <<>> THEN <<>>
    ELSE IF Len(parts) = 1 THEN parts[1]
    ELSE parts[1] \o <<"/">> \o JoinSlash(Tail(parts))

\* str.split("/")
RECURSIVE SplitSlash(_)
SplitSlash(s) ==
    LET i == FindAny(s, {"/"})
    IN  IF i = 0 THEN <<s>> ELSE <<SubSeq(s, 1, i - 1)>> \o SplitSlash(Drop(s, i + 1))

(***************************************************************************)
(* urllib.parse.urlsplit / urlunsplit, as Constructor.load uses them       *)
(***************************************************************************)
\* leading characters urlsplit strips (C0 controls and space)
C0_CONTROL_OR_SPACE == {"\n"}
\* characters urlsplit removes anywhere in the URL (tab, CR, LF)
UNSAFE_URL_BYTES_TO_REMOVE == {"\n"}
\* characters a scheme may consist of (letters, digits, "+", "-", ".")
scheme_chars == {"a", "."}
\* characters a scheme may start with (ASCII letters)
Alpha == {"a"}
\* schemes for which urlunsplit writes "//" also before an empty host;
\* none of them can be spelled with Chars
uses_netloc == {<<>>}

\* urlsplit(url): the record (scheme, netloc, path, query); the alphabet has no
\* "#", so the fragment is always empty, and no upper case, so lower() is
\* the identity
urlsplit(url) ==
    LET u0   == Remove(LStrip(url, C0_CONTROL_OR_SPACE), UNSAFE_URL_BYTES_TO_REMOVE)
        i    == FindAny(u0, {":"})
        isSc == /\ i > 1
                /\ u0[1] \in Alpha
                /\ \A j \in 1..(i-1) : u0[j] \in scheme_chars
        sc   == IF isSc THEN SubSeq(u0, 1, i - 1) ELSE <<>>
        u1   == IF isSc THEN Drop(u0, i + 1) ELSE u0
        hasN == Len(u1) >= 2 /\ u1[1] = "/" /\ u1[2] = "/"
        u1b  == Drop(u1, 3)
        d    == FindAny(u1b, {"/", "?"})
        nl   == IF ~hasN THEN <<>> ELSE IF d = 0 THEN u1b ELSE SubSeq(u1b, 1, d - 1)
        u2   == IF ~hasN THEN u1 ELSE IF d = 0 THEN <<>> ELSE Drop(u1b, d)
        q    == FindAny(u2, {"?"})
    IN  [scheme |-> sc,
         netloc |-> nl,
         path   |-> IF q = 0 THEN u2 ELSE SubSeq(u2, 1, q - 1),
         query  |-> IF q = 0 THEN <<>> ELSE Drop(u2, q + 1)]

\* urlunsplit((scheme, netloc, path, query, ""))
urlunsplit(scheme, netloc, path, query) ==
    LET withN == \/ netloc # <<>>
                 \/ (scheme # <<>> /\ scheme \in uses_netloc
                       /\ SubSeq(path, 1, 2) # <<"/", "/">>)
        p1 == IF withN /\ path # <<>> /\ path[1] # "/" THEN <<"/">> \o path ELSE path
        u1 == IF withN THEN <<"/", "/">> \o netloc \o p1 ELSE path
        u2 == IF scheme # <<>> THEN scheme \o <<":">> \o u1 ELSE u1
    IN  IF query # <<>> THEN u2 \o <<"?">> \o query ELSE u2

(***************************************************************************)
(* pathlib.Path (POSIX flavour), as Constructor.load uses it               *)
(***************************************************************************)
\* the root of a path: "//" for exactly two leading slashes, "/" for one or
\* for three and more, "" for a relative path
PathRoot(s) ==
    IF s = <<>> \/ s[1] # "/" THEN <<>>
    ELSE IF Len(s) >= 2 /\ s[2] = "/" /\ ~(Len(s) >= 3 /\ s[3] = "/") THEN <<"/", "/">>
    ELSE <<"/">>

\* the components of a path: empty and "." components are dropped
PathParts(s) == SelectSeq(SplitSlash(s), LAMBDA c : c # <<>> /\ c # <<".">>)

\* str(PurePosixPath) from root and components
PathStr(root, parts) ==
    IF root = <<>> /\ parts = <<>> THEN <<".">> ELSE root \o JoinSlash(parts)

\* Path(s).as_posix()
as_posix(s) == PathStr(PathRoot(s), PathParts(s))

\* Path(base).joinpath(s).as_posix(): an absolute s replaces base
joinpath(base, s) ==
    IF PathRoot(s) # <<>> THEN as_posix(s)
    ELSE PathStr(PathRoot(base), PathParts(base) \o PathParts(s))

(***************************************************************************)
(* WILDCARDS_PATTERN                                                       *)
(***************************************************************************)
\* the character class [\*\?\[\]] of WILDCARDS_PATTERN
WildcardChars == {"*", "?", "[", "]"}

\* WILDCARDS_PATTERN.match(s) for ^(.*)([*?\[\]]+)(.*)$ : "." matches no line
\* break and "$" matches at the end or just before one final line break, so
\* the text, less one final line break, must hold a wildcard and no line break
HasWildcard(s) ==
    LET t == IF s # <<>> /\ s[Len(s)] = "\n" THEN SubSeq(s, 1, Len(s) - 1) ELSE s
    IN  /\ \E i \in 1..Len(t) : t[i] \in WildcardChars
        /\ \A i \in 1..Len(t) : t[i] # "\n"

(***************************************************************************)
(* Python values.  A value is a record whose field k names its type:       *)
(* none, bool, int, str (v: the characters), seq (v: the members), map     *)
(* (v: the <<key, value>> pairs in insertion order) and data, the Data     *)
(* dataclass of data.py.                                                   *)
(***************************************************************************)
VNone == [k |-> "none", v |-> <<>>]
VBool(b) == [k |-> "bool", v |-> b]
VInt(n) == [k |-> "int", v |-> n]
VStr(s) == [k |-> "str", v |-> s]
VSeq(items) == [k |-> "seq", v |-> items]
VMap(pairs) == [k |-> "map", v |-> pairs]

\* Data(urlpath, flatten, sequence_params, mapping_params): a frozen dataclass
Data(urlpath, flatten, sequence_params, mapping_params) ==
    [k |-> "data", urlpath |-> urlpath, flatten |-> flatten,
     sequence_params |-> sequence_params, mapping_params |-> mapping_params]

\* the names used as mapping keys
K_urlpath == <<"u", "r", "l", "p", "a", "t", "h">>
K_flatten == <<"f", "l", "a", "t", "t", "e", "n">>
K_glob == <<"g", "l", "o", "b">>
K_open == <<"o", "p", "e", "n">>
K_maxdepth == <<"m", "a", "x", "d", "e", "p", "t", "h">>
K_default == <<"d", "e", "f", "a", "u", "l", "t">>
K_mode == <<"m", "o", "d", "e">>

\* the keys of a list of pairs, in order
Keys(pairs) == [i \in 1..Len(pairs) |-> pairs[i][1]]

HasKey(pairs, key) == \E i \in 1..Len(pairs) : pairs[i][1] = key

\* mapping.get(key): the value under key, None when absent
Get(pairs, key) ==
    IF HasKey(pairs, key)
    THEN pairs[CHOOSE i \in 1..Len(pairs) : pairs[i][1] = key][2]
    ELSE VNone

\* {k: v for k, v in pairs if k not in keys}
Without(pairs, keys) == SelectSeq(pairs, LAMBDA p : p[1] \notin keys)

\* dict equality: the same keys with the same values, in any order
SameMapping(p, q) ==
    /\ Len(p) = Len(q)
    /\ \A i \in 1..Len(p) : HasKey(q, p[i][1]) /\ Get(q, p[i][1]) = p[i][2]

\* bool(v)
Truthy(v) ==
    CASE v.k = "none" -> FALSE
      [] v.k = "bool" -> v.v
      [] v.k = "int" -> v.v # 0
      [] v.k \in {"str", "seq", "map"} -> v.v # <<>>
      [] OTHER -> TRUE

Digits == {"0", "1", "2", "3", "4", "5", "6", "7", "8", "9"}
Letters == {"a", "b", "c", "d", "e", "f", "g", "h", "i", "j", "k", "l", "m",
            "n", "o", "p", "q", "r", "s", "t", "u", "v", "w", "x", "y", "z"}
DigitVal(c) == CHOOSE n \in 0..9 : <<"0", "1", "2", "3", "4", "5", "6", "7", "8", "9">>[n + 1] = c

RECURSIVE DecimalVal(_)
DecimalVal(s) ==
    IF s = <<>> THEN 0 ELSE 10 * DecimalVal(SubSeq(s, 1, Len(s) - 1)) + DigitVal(s[Len(s)])

\* int(v): [ok, n, exc].  A text converts when it is a run of digits (signs,
\* blanks and underscores are not among the texts of the model).
IntOf(v) ==
    CASE v.k = "int" -> [ok |-> TRUE, n |-> v.v, exc |-> ""]
      [] v.k = "bool" -> [ok |-> TRUE, n |-> IF v.v THEN 1 ELSE 0, exc |-> ""]
      [] v.k = "str" ->
            IF v.v # <<>> /\ \A i \in 1..Len(v.v) : v.v[i] \in Digits
            THEN [ok |-> TRUE, n |-> DecimalVal(v.v), exc |-> ""]
            ELSE [ok |-> FALSE, n |-> 0, exc |-> "ValueError"]
      [] OTHER -> [ok |-> FALSE, n |-> 0, exc |-> "TypeError"]

\* str.isidentifier()
IsIdentifier(s) ==
    /\ s # <<>>
    /\ s[1] \in Letters \cup {"_"}
    /\ \A i \in 1..Len(s) : s[i] \in Letters \cup Digits \cup {"_"}

(***************************************************************************)
(* State                                                                   *)
(***************************************************************************)
VARIABLES
    autoload,       \* Constructor.autoload
    saved,          \* the local `saved` of each open managed_autoload block, innermost last
    entered,        \* history: per open block, the autoload seen on entry and the argument
    base_dir,       \* Constructor.base_dir
    custom_loader,  \* whether Constructor.custom_loader is set
    files,          \* Constructor.fs: the documents the file system holds, by path
    remote,         \* the documents fsspec.open / open_files reach, by URL
    listing,        \* the order in which the backends list paths
    obj,            \* the tree the caller holds (the result of the last parse)
    res,            \* the last operation and its outcome
    threads         \* per thread inside managed_autoload: its position and its locals

\* No thread is inside managed_autoload other than the caller the other variables describe.
NoThreads == <<>>

vars ==
    <<autoload, saved, entered, base_dir, custom_loader, files, remote, listing, obj, res,
      threads>>

(***************************************************************************)
(* Outcomes and backend calls                                              *)
(***************************************************************************)
\* a call returned val, having made the calls of log
Ok(val, log) == [st |-> "ok", val |-> val, exc |-> "", log |-> log]
\* a call raised exc, having made the calls of log
Raise(exc, log) == [st |-> "raise", val |-> VNone, exc |-> exc, log |-> log]

\* one call: op(path, *args, **kwargs)
Ev(op, path, args, kwargs) == [op |-> op, path |-> path, args |-> args, kwargs |-> kwargs]

BackendOps == {"fs.glob", "fs.open", "fsspec.open", "fsspec.open_files"}

\* the calls of log made to the backend (log also holds the parses and the
\* closing of handles)
BackendCalls(log) == SelectSeq(log, LAMBDA e : e.op \in BackendOps)

\* a loader class, as the argument of a call
LoaderType(loader_type) == [k |-> "type", v |-> <<loader_type>>]

(***************************************************************************)
(* Documents.  A node is [n, v]: val (v: a plain value), seq (v: nodes),   *)
(* map (v: <<key, node>> pairs) or inc, a node carrying the include tag    *)
(* (v: what construct_scalar / construct_sequence / construct_mapping      *)
(* return for it: a str for a ScalarNode, a seq for a SequenceNode, a map  *)
(* for a MappingNode).                                                     *)
(***************************************************************************)
NVal(v) == [n |-> "val", v |-> v]
NSeq(nodes) == [n |-> "seq", v |-> nodes]
NMap(pairs) == [n |-> "map", v |-> pairs]
NInc(v) == [n |-> "inc", v |-> v]

(***************************************************************************)
(* The backend: shell-style matching and listing                           *)
(***************************************************************************)
RECURSIVE GlobMatch(_, _)
\* whether path matches pattern: "*" is any run of characters other than
\* "/", "?" is one character other than "/", any other character is itself
GlobMatch(pattern, path) ==
    IF pattern = <<>> THEN path = <<>>
    ELSE IF Head(pattern) = "*"
         THEN \/ GlobMatch(Tail(pattern), path)
              \/ path # <<>> /\ Head(path) # "/" /\ GlobMatch(pattern, Tail(path))
    ELSE IF Head(pattern) = "?"
         THEN path # <<>> /\ Head(path) # "/" /\ GlobMatch(Tail(pattern), Tail(path))
    ELSE path # <<>> /\ Head(path) = Head(pattern) /\ GlobMatch(Tail(pattern), Tail(path))

\* fs.glob(pattern, ...): the matching paths of the file system, in its order
fs_glob(pattern) ==
    SelectSeq(listing, LAMBDA p : p \in DOMAIN files /\ GlobMatch(pattern, p))

\* the URLs fsspec.open_files(pattern, ...) expands to, in the backend's order
open_files_expand(pattern) ==
    SelectSeq(listing, LAMBDA p : p \in DOMAIN remote /\ GlobMatch(pattern, p))

(***************************************************************************)
(* Constructor.__call__: from the tagged node to the Data directive        *)
(***************************************************************************)
T_true == <<"t", "r", "u", "e">>
T_yes == <<"y", "e", "s">>
T_on == <<"o", "n">>
T_false == <<"f", "a", "l", "s", "e">>
T_no == <<"n", "o">>
T_off == <<"o", "f", "f">>

\* DEFAULT_YAML_LOAD_FUNCTION(text): the YAML booleans become bool; any other
\* text is kept as it is here (it parses to something that is not a bool)
DEFAULT_YAML_LOAD_FUNCTION(text) ==
    IF text \in {T_true, T_yes, T_on} THEN VBool(TRUE)
    ELSE IF text \in {T_false, T_no, T_off} THEN VBool(FALSE)
    ELSE VStr(text)

\* is_kwds(val): every key is a str and an identifier
is_kwds(pairs) ==
    \A i \in 1..Len(pairs) : pairs[i][1].k = "str" /\ IsIdentifier(pairs[i][1].v)

\* the Data as it would be built if a flatten value that is no boolean were
\* read as false instead of being refused
TagDataLenient(v) ==
    CASE v.k = "str" -> Ok(Data(v, FALSE, <<>>, <<>>), <<>>)
      [] v.k = "seq" ->
            IF v.v = <<>> THEN Raise("IndexError", <<>>)
            ELSE Ok(Data(v.v[1], FALSE, Tail(v.v), <<>>), <<>>)
      [] v.k = "map" ->
            IF ~is_kwds(v.v) THEN Raise("ValueError", <<>>)
            ELSE IF ~HasKey(v.v, VStr(K_urlpath)) THEN Raise("KeyError", <<>>)
            ELSE LET urlpath == Get(v.v, VStr(K_urlpath))
                     params  == Without(v.v, {VStr(K_urlpath), VStr(K_flatten)})
                     given   == Get(v.v, VStr(K_flatten))
                     flatten == IF given.k = "str"
                                THEN DEFAULT_YAML_LOAD_FUNCTION(given.v) ELSE given
                 IN  IF flatten.k # "bool" THEN Ok(Data(urlpath, FALSE, <<>>, params), <<>>)
                     ELSE Ok(Data(urlpath, flatten.v, <<>>, params), <<>>)
      [] OTHER -> Raise("TypeError", <<>>)

\* the Data as it would be built if the key flatten were left among the
\* options
TagDataKeepsFlatten(v) ==
    CASE v.k = "str" -> Ok(Data(v, FALSE, <<>>, <<>>), <<>>)
      [] v.k = "seq" ->
            IF v.v = <<>> THEN Raise("IndexError", <<>>)
            ELSE Ok(Data(v.v[1], FALSE, Tail(v.v), <<>>), <<>>)
      [] v.k = "map" ->
            IF ~is_kwds(v.v) THEN Raise("ValueError", <<>>)
            ELSE IF ~HasKey(v.v, VStr(K_urlpath)) THEN Raise("KeyError", <<>>)
            ELSE LET urlpath == Get(v.v, VStr(K_urlpath))
                     params  == Without(v.v, {VStr(K_urlpath)})
                     given   == Get(v.v, VStr(K_flatten))
                     flatten == IF given.k = "str"
                                THEN DEFAULT_YAML_LOAD_FUNCTION(given.v) ELSE given
                 IN  IF given.k = "none" THEN Ok(Data(urlpath, FALSE, <<>>, params), <<>>)
                     ELSE IF flatten.k # "bool" THEN Raise("ValueError", <<>>)
                     ELSE Ok(Data(urlpath, flatten.v, <<>>, params), <<>>)
      [] OTHER -> Raise("TypeError", <<>>)

\* the Data that __call__ builds from what the loader constructed for the
\* tagged node, or the error it raises
TagData(v) ==
    CASE v.k = "str" -> Ok(Data(v, FALSE, <<>>, <<>>), <<>>)
      [] v.k = "seq" ->
            IF v.v = <<>> THEN Raise("IndexError", <<>>)
            ELSE Ok(Data(v.v[1], FALSE, Tail(v.v), <<>>), <<>>)
      [] v.k = "map" ->
            IF ~is_kwds(v.v) THEN Raise("ValueError", <<>>)
            ELSE IF ~HasKey(v.v, VStr(K_urlpath)) THEN Raise("KeyError", <<>>)
            ELSE LET urlpath == Get(v.v, VStr(K_urlpath))
                     params  == Without(v.v, {VStr(K_urlpath), VStr(K_flatten)})
                     given   == Get(v.v, VStr(K_flatten))
                     flatten == IF given.k = "str"
                                THEN DEFAULT_YAML_LOAD_FUNCTION(given.v) ELSE given
                 IN  IF given.k = "none" THEN Ok(Data(urlpath, FALSE, <<>>, params), <<>>)
                     ELSE IF flatten.k # "bool" THEN Raise("ValueError", <<>>)
                     ELSE Ok(Data(urlpath, flatten.v, <<>>, params), <<>>)
      [] OTHER -> Raise("TypeError", <<>>)

(***************************************************************************)
(* Constructor.load                                                        *)
(***************************************************************************)
\* deepest include nesting followed before the interpreter gives up
MaxDepth == 4

NoBase == [kind |-> "none", v |-> <<>>]
Literal(path) == [kind |-> "literal", v |-> path]
Callable(path) == [kind |-> "callable", v |-> path]

\* the path as it would be if the target were joined onto base_dir as a
\* plain path whether or not it has a scheme
EffectivePathSchemeBlind(urlpath) ==
    IF base_dir.kind = "none" THEN urlpath ELSE joinpath(base_dir.v, urlpath)

\* the path handed to the backend: urlpath joined onto base_dir
EffectivePath(urlpath) ==
    LET url_sr == urlsplit(urlpath)
    IN  IF base_dir.kind = "none" THEN urlpath
        ELSE IF url_sr.scheme # <<>>
             THEN urlunsplit(url_sr.scheme, url_sr.netloc,
                             joinpath(base_dir.v, url_sr.path), url_sr.query)
        ELSE joinpath(base_dir.v, urlpath)

\* the options as they would be routed if mapping_params were consulted
\* first
ParamPlanMappingFirst(sequence_params, mapping_params) ==
    IF mapping_params # <<>>
    THEN [glob |-> Get(mapping_params, VStr(K_glob)),
          open |-> Get(mapping_params, VStr(K_open))]
    ELSE IF Len(sequence_params) > 1
    THEN [glob |-> sequence_params[1], open |-> sequence_params[2]]
    ELSE IF Len(sequence_params) = 1
    THEN [glob |-> sequence_params[1], open |-> VNone]
    ELSE [glob |-> VNone, open |-> VNone]

\* glob_params and open_params of the no-scheme wildcard branch
ParamPlan(sequence_params, mapping_params) ==
    IF sequence_params # <<>>
    THEN IF Len(sequence_params) > 1
         THEN [glob |-> sequence_params[1], open |-> sequence_params[2]]
         ELSE [glob |-> sequence_params[1], open |-> VNone]
    ELSE IF mapping_params # <<>>
         THEN [glob |-> Get(mapping_params, VStr(K_glob)),
               open |-> Get(mapping_params, VStr(K_open))]
    ELSE [glob |-> VNone, open |-> VNone]

\* glob_fn as it would be if the options were handed to fs.glob as they
\* were written, without the int() of maxdepth
GlobCallUncoerced(glob_params, urlpath) ==
    CASE glob_params.k = "none" -> Ok(Ev("fs.glob", urlpath, <<>>, <<>>), <<>>)
      [] glob_params.k = "map" -> Ok(Ev("fs.glob", urlpath, <<>>, glob_params.v), <<>>)
      [] glob_params.k = "seq" -> Ok(Ev("fs.glob", urlpath, glob_params.v, <<>>), <<>>)
      [] OTHER -> Ok(Ev("fs.glob", urlpath, <<>>, << <<VStr(K_maxdepth), glob_params>> >>), <<>>)

\* glob_fn: the fs.glob call that glob_params selects, or the error raised
\* while preparing it
GlobCall(glob_params, urlpath) ==
    CASE glob_params.k = "none" -> Ok(Ev("fs.glob", urlpath, <<>>, <<>>), <<>>)
      [] glob_params.k = "map" ->
            LET kv == glob_params.v
                md == IntOf(Get(kv, VStr(K_maxdepth)))
            IN  IF ~HasKey(kv, VStr(K_maxdepth)) THEN Ok(Ev("fs.glob", urlpath, <<>>, kv), <<>>)
                ELSE IF ~md.ok THEN Raise(md.exc, <<>>)
                ELSE Ok(Ev("fs.glob", urlpath, <<>>,
                           [i \in 1..Len(kv) |->
                              IF kv[i][1] = VStr(K_maxdepth)
                              THEN <<kv[i][1], VInt(md.n)>> ELSE kv[i]]), <<>>)
      [] glob_params.k = "seq" ->
            LET pos == glob_params.v
                md  == IntOf(pos[1])
            IN  IF pos = <<>> THEN Ok(Ev("fs.glob", urlpath, <<>>, <<>>), <<>>)
                ELSE IF ~md.ok THEN Raise(md.exc, <<>>)
                ELSE Ok(Ev("fs.glob", urlpath, <<VInt(md.n)>> \o Tail(pos), <<>>), <<>>)
      [] OTHER ->
            LET md == IntOf(glob_params)
            IN  IF md.ok
                THEN Ok(Ev("fs.glob", urlpath, <<>>, << <<VStr(K_maxdepth), VInt(md.n)>> >>), <<>>)
                ELSE IF md.exc = "ValueError"
                THEN Ok(Ev("fs.glob", urlpath, <<>>, << <<VStr(K_maxdepth), VNone>> >>), <<>>)
                ELSE Raise(md.exc, <<>>)

\* open_fn: the arguments of each fs.open call that open_params selects, or
\* the error raised
OpenCall(open_params) ==
    CASE open_params.k = "none" -> Ok([args |-> <<>>, kwargs |-> <<>>], <<>>)
      [] open_params.k = "map" -> Ok([args |-> <<>>, kwargs |-> open_params.v], <<>>)
      [] open_params.k = "seq" -> Ok([args |-> open_params.v, kwargs |-> <<>>], <<>>)
      [] open_params.k = "str" ->
            Ok([args |-> <<>>, kwargs |-> << <<VStr(K_mode), open_params>> >>], <<>>)
      [] OTHER -> Raise("ValueError", <<>>)

\* the members a comprehension `for child in item` draws from item
Iterate(item) ==
    CASE item.k = "seq" -> Ok(item.v, <<>>)
      [] item.k = "map" -> Ok(Keys(item.v), <<>>)
      [] item.k = "str" -> Ok([i \in 1..Len(item.v) |-> VStr(<<item.v[i]>>)], <<>>)
      [] OTHER -> Raise("TypeError", <<>>)

RECURSIVE Flatten(_)
\* [child for item in result for child in item]
Flatten(result) ==
    IF result = <<>> THEN Ok(<<>>, <<>>)
    ELSE LET h == Iterate(Head(result))
             t == Flatten(Tail(result))
         IN  IF h.st = "raise" THEN h
             ELSE IF t.st = "raise" THEN t
             ELSE Ok(h.val \o t.val, <<>>)

\* what custom_loader(path, file, loader_type) returns: a value fixed by its
\* three arguments
CustomLoaded(path, file, loader_type) ==
    [k |-> "custom", path |-> path, file |-> file, loader_type |-> loader_type]

\* the error urlsplit or the pattern match raises for an urlpath that is no str
NonTextError(urlpath) == IF urlpath.k \in {"int", "bool"} THEN "AttributeError" ELSE "TypeError"

\* the outcome r of what follows the backend call op: the call is logged first
Prefix(op, r) ==
    IF r.st = "raise" THEN Raise(r.exc, <<op>> \o r.log) ELSE Ok(r.val, <<op>> \o r.log)

\* the list as it would be if a failing turn ended the loop and the results
\* of the turns before it were returned
ConsPartial(h, t) ==
    IF h.st = "raise" THEN Ok(<<>>, h.log)
    ELSE IF t.st = "raise" THEN Raise(t.exc, h.log \o t.log)
    ELSE Ok(<<h.val>> \o t.val, h.log \o t.log)

\* one turn h of a loop that collects a list, followed by the remaining turns t
Cons(h, t) ==
    IF h.st = "raise" THEN h
    ELSE IF t.st = "raise" THEN Raise(t.exc, h.log \o t.log)
    ELSE Ok(<<h.val>> \o t.val, h.log \o t.log)

\* the list a loop collected, as a value
AsSeq(r) == IF r.st = "raise" THEN r ELSE Ok(VSeq(r.val), r.log)

\* the pairs a loop collected for the keys of pairs, as a mapping value
AsMap(pairs, r) ==
    IF r.st = "raise" THEN r
    ELSE Ok(VMap([i \in 1..Len(pairs) |-> <<pairs[i][1], r.val[i]>>]), r.log)

\* the outcome fl of flattening, after the calls of log
AfterLog(log, fl) ==
    IF fl.st = "raise" THEN Raise(fl.exc, log) ELSE Ok(VSeq(fl.val), log)

\* the result list as it would be if the flatten flag were not applied
FlattenedNever(flatten, r) ==
    IF r.st = "raise" THEN r ELSE Ok(VSeq(r.val), r.log)

\* the result list r of the wildcard branch, flattened when flatten is set
Flattened(flatten, r) ==
    IF r.st = "raise" THEN r
    ELSE IF ~flatten THEN Ok(VSeq(r.val), r.log)
    ELSE AfterLog(r.log, Flatten(r.val))

RECURSIVE Load(_, _, _, _)
RECURSIVE Construct(_, _, _, _)
RECURSIVE ConstructSeq(_, _, _, _)
RECURSIVE ConstructPairs(_, _, _, _)
RECURSIVE LoadOpened(_, _, _, _, _)
RECURSIVE LoadGlobbed(_, _, _, _, _)

\* load_open_file as it would be if the tags of an included document were
\* left as directives, so that no include is followed from inside another
load_open_file_shallow(doc, loader_type, path, al, depth) ==
    IF custom_loader THEN Ok(CustomLoaded(path, doc, loader_type), <<>>)
    ELSE IF depth >= MaxDepth THEN Raise("RecursionError", <<>>)
    ELSE Prefix(Ev("yaml.load", path, <<LoaderType(loader_type)>>, <<>>),
                Construct(doc, loader_type, FALSE, depth + 1))

\* load_open_file(file, loader_type, path, custom_loader), file being the open
\* handle on the document doc: yaml.load runs the tag handler on every
\* tagged node of the document
load_open_file(doc, loader_type, path, al, depth) ==
    IF custom_loader THEN Ok(CustomLoaded(path, doc, loader_type), <<>>)
    ELSE IF depth >= MaxDepth THEN Raise("RecursionError", <<>>)
    ELSE Prefix(Ev("yaml.load", path, <<LoaderType(loader_type)>>, <<>>),
                Construct(doc, loader_type, al, depth + 1))

\* the with block as it would be if the handle were closed by a statement
\* after the parse, which a raising parse never reaches
ClosedOnSuccess(path, r) ==
    IF r.st = "raise" THEN r ELSE Ok(r.val, r.log \o <<Ev("close", path, <<>>, <<>>)>>)

\* leaving `with ... as of_`: the handle on path is closed whether the body
\* returned or raised
Closed(path, r) ==
    IF r.st = "raise" THEN Raise(r.exc, r.log \o <<Ev("close", path, <<>>, <<>>)>>)
    ELSE Ok(r.val, r.log \o <<Ev("close", path, <<>>, <<>>)>>)

\* leaving `with fsspec.open_files(...) as ofs`: every handle of ofs is closed
ClosedAll(urls, r) ==
    IF r.st = "raise"
    THEN Raise(r.exc, r.log \o [i \in 1..Len(urls) |-> Ev("close", urls[i], <<>>, <<>>)])
    ELSE Ok(r.val, r.log \o [i \in 1..Len(urls) |-> Ev("close", urls[i], <<>>, <<>>)])

\* the open as it would be if a missing path were caught and read as an
\* empty document
OpenAndLoadCaught(store, path, loader_type, al, depth) ==
    IF path \in DOMAIN store
    THEN Closed(path, load_open_file(store[path], loader_type, path, al, depth))
    ELSE Ok(VNone, <<>>)

\* with open(path) as of_: load_open_file(of_, ...), store being what the
\* backend holds: a path it does not hold makes the open raise
OpenAndLoad(store, path, loader_type, al, depth) ==
    IF path \in DOMAIN store
    THEN Closed(path, load_open_file(store[path], loader_type, path, al, depth))
    ELSE Raise("FileNotFoundError", <<>>)

\* the loop over the files fsspec.open_files opened: [st, val: the list, exc, log]
LoadOpened(urls, urlpath, loader_type, al, depth) ==
    IF urls = <<>> THEN Ok(<<>>, <<>>)
    ELSE Cons(load_open_file(remote[Head(urls)], loader_type, urlpath, al, depth),
              LoadOpened(Tail(urls), urlpath, loader_type, al, depth))

\* the loop over the paths fs.glob returned: each is opened with the open
\* plan, then parsed
LoadGlobbed(paths, plan, loader_type, al, depth) ==
    IF paths = <<>> THEN Ok(<<>>, <<>>)
    ELSE Cons(Prefix(Ev("fs.open", Head(paths), plan.args, plan.kwargs),
                     OpenAndLoad(files, Head(paths), loader_type, al, depth)),
              LoadGlobbed(Tail(paths), plan, loader_type, al, depth))

\* the no-scheme wildcard branch as it would be if a pattern that matches
\* nothing were reported as a missing file
LoadGlobStrict(flatten, pattern, glob_fn, open_fn, loader_type, al, depth) ==
    IF glob_fn.st = "raise" THEN glob_fn
    ELSE IF open_fn.st = "raise" THEN open_fn
    ELSE IF fs_glob(pattern) = <<>> THEN Raise("FileNotFoundError", <<glob_fn.val>>)
    ELSE Prefix(glob_fn.val,
                Flattened(flatten,
                          LoadGlobbed(fs_glob(pattern), open_fn.val, loader_type, al, depth)))

\* the no-scheme wildcard branch once glob_fn and open_fn are prepared
LoadGlob(flatten, pattern, glob_fn, open_fn, loader_type, al, depth) ==
    IF glob_fn.st = "raise" THEN glob_fn
    ELSE IF open_fn.st = "raise" THEN open_fn
    ELSE Prefix(glob_fn.val,
                Flattened(flatten,
                          LoadGlobbed(fs_glob(pattern), open_fn.val, loader_type, al, depth)))

\* the no-scheme wildcard branch: the options are routed to glob and open
LoadWild(flatten, pattern, params, loader_type, al, depth) ==
    LoadGlob(flatten, pattern, GlobCall(params.glob, pattern), OpenCall(params.open),
             loader_type, al, depth)

\* the branches as they would be if the keys glob and open were taken out
\* of the keyword options of every open, as the wildcard branch routes them
LoadBranchRouted(data, scheme, urlpath, loader_type, al, depth) ==
    IF scheme # <<>>
    THEN IF HasWildcard(urlpath)
         THEN Prefix(Ev("fsspec.open_files", urlpath, data.sequence_params,
                        Without(data.mapping_params, {VStr(K_glob), VStr(K_open)})),
                     ClosedAll(open_files_expand(urlpath),
                               AsSeq(LoadOpened(open_files_expand(urlpath), urlpath,
                                                loader_type, al, depth))))
         ELSE Prefix(Ev("fsspec.open", urlpath, data.sequence_params,
                        Without(data.mapping_params, {VStr(K_glob), VStr(K_open)})),
                     OpenAndLoad(remote, urlpath, loader_type, al, depth))
    ELSE IF HasWildcard(urlpath)
    THEN LoadWild(data.flatten, as_posix(urlpath),
                  ParamPlan(data.sequence_params, data.mapping_params), loader_type, al, depth)
    ELSE Prefix(Ev("fs.open", urlpath, data.sequence_params,
                   Without(data.mapping_params, {VStr(K_glob), VStr(K_open)})),
                OpenAndLoad(files, urlpath, loader_type, al, depth))

\* the branches as they would be if the scheme + wildcard branch flattened
\* its list when the flatten flag is set
LoadBranchFlattening(data, scheme, urlpath, loader_type, al, depth) ==
    IF scheme # <<>>
    THEN IF HasWildcard(urlpath)
         THEN Prefix(Ev("fsspec.open_files", urlpath, data.sequence_params, data.mapping_params),
                     ClosedAll(open_files_expand(urlpath),
                               Flattened(data.flatten,
                                         LoadOpened(open_files_expand(urlpath), urlpath,
                                                    loader_type, al, depth))))
         ELSE Prefix(Ev("fsspec.open", urlpath, data.sequence_params, data.mapping_params),
                     OpenAndLoad(remote, urlpath, loader_type, al, depth))
    ELSE IF HasWildcard(urlpath)
    THEN LoadWild(data.flatten, as_posix(urlpath),
                  ParamPlan(data.sequence_params, data.mapping_params), loader_type, al, depth)
    ELSE Prefix(Ev("fs.open", urlpath, data.sequence_params, data.mapping_params),
                OpenAndLoad(files, urlpath, loader_type, al, depth))

\* the four branches of Constructor.load, urlpath being the effective path
LoadBranch(data, scheme, urlpath, loader_type, al, depth) ==
    IF scheme # <<>>
    THEN IF HasWildcard(urlpath)
         THEN Prefix(Ev("fsspec.open_files", urlpath, data.sequence_params, data.mapping_params),
                     ClosedAll(open_files_expand(urlpath),
                               AsSeq(LoadOpened(open_files_expand(urlpath), urlpath,
                                                loader_type, al, depth))))
         ELSE Prefix(Ev("fsspec.open", urlpath, data.sequence_params, data.mapping_params),
                     OpenAndLoad(remote, urlpath, loader_type, al, depth))
    ELSE IF HasWildcard(urlpath)
    THEN LoadWild(data.flatten, as_posix(urlpath),
                  ParamPlan(data.sequence_params, data.mapping_params), loader_type, al, depth)
    ELSE Prefix(Ev("fs.open", urlpath, data.sequence_params, data.mapping_params),
                OpenAndLoad(files, urlpath, loader_type, al, depth))

\* Constructor.load(loader_type, data), autoload being al while it runs
Load(data, loader_type, al, depth) ==
    IF data.urlpath.k # "str" THEN Raise(NonTextError(data.urlpath), <<>>)
    ELSE LoadBranch(data, urlsplit(data.urlpath.v).scheme, EffectivePath(data.urlpath.v),
                    loader_type, al, depth)

\* the tag handler as it would be if it resolved every directive at once,
\* whatever autoload says
DispatchAlways(data, loader_type, al, depth) ==
    IF data.st = "raise" THEN data
    ELSE Load(data.val, loader_type, al, depth)

\* the tag handler as it would be if it parsed every included file with the
\* full Loader instead of the class of the loader that met the tag
DispatchFullLoader(data, loader_type, al, depth) ==
    IF data.st = "raise" THEN data
    ELSE IF al THEN Load(data.val, "Loader", al, depth)
    ELSE Ok(data.val, <<>>)

\* the tag handler once the directive is built: it is resolved when autoload
\* is set and returned as it is otherwise
Dispatch(data, loader_type, al, depth) ==
    IF data.st = "raise" THEN data
    ELSE IF al THEN Load(data.val, loader_type, al, depth)
    ELSE Ok(data.val, <<>>)

\* Constructor.__call__(loader, node)
Call(v, loader_type, al, depth) == Dispatch(TagData(v), loader_type, al, depth)

\* loader.construct_sequence over nodes: [st, val: the list, exc, log]
ConstructSeq(nodes, loader_type, al, depth) ==
    IF nodes = <<>> THEN Ok(<<>>, <<>>)
    ELSE Cons(Construct(Head(nodes), loader_type, al, depth),
              ConstructSeq(Tail(nodes), loader_type, al, depth))

\* loader.construct_mapping over <<key, node>> pairs: the list of values
ConstructPairs(pairs, loader_type, al, depth) ==
    IF pairs = <<>> THEN Ok(<<>>, <<>>)
    ELSE Cons(Construct(Head(pairs)[2], loader_type, al, depth),
              ConstructPairs(Tail(pairs), loader_type, al, depth))

\* yaml.load of a document: the host parser builds the plain nodes and calls
\* the tag handler on every tagged node, in document order
Construct(node, loader_type, al, depth) ==
    CASE node.n = "val" -> Ok(node.v, <<>>)
      [] node.n = "seq" -> AsSeq(ConstructSeq(node.v, loader_type, al, depth))
      [] node.n = "map" -> AsMap(node.v, ConstructPairs(node.v, loader_type, al, depth))
      [] OTHER -> Call(node.v, loader_type, al, depth)

(***************************************************************************)
(* funcs.load and funcs.lazy_load.  An outcome of a walk also has cur, the *)
(* container the caller passed in as it is when the call ends (changed     *)
(* only by an in-place walk), and yields, the values a generator yielded.  *)
(***************************************************************************)
Walked(st, val, exc, log, cur, yields) ==
    [st |-> st, val |-> val, exc |-> exc, log |-> log, cur |-> cur, yields |-> yields]

\* a walk w that follows the calls of log, on behalf of the node cur
Relog(log, cur, w) == Walked(w.st, w.val, w.exc, log \o w.log, cur, w.yields)

\* the loop as it would be if a failing turn put the members back as they
\* were before the loop
ConsWalkRolledBack(items, h, t) ==
    IF h.st = "raise"
    THEN Walked("raise", VNone, h.exc, h.log, items, h.yields)
    ELSE IF t.st = "raise"
    THEN Walked("raise", VNone, t.exc, h.log \o t.log, items, h.yields \o t.yields)
    ELSE Walked("ok", <<h.val>> \o t.val, "", h.log \o t.log, <<h.val>> \o t.cur,
                h.yields \o t.yields)

\* one turn h of the loop over the members items of a container, followed by
\* the remaining turns t: val is the list of results, cur the members as the
\* loop leaves them when it stores its results in place
ConsWalk(items, h, t) ==
    IF h.st = "raise"
    THEN Walked("raise", VNone, h.exc, h.log, <<h.cur>> \o Tail(items), h.yields)
    ELSE IF t.st = "raise"
    THEN Walked("raise", VNone, t.exc, h.log \o t.log, <<h.val>> \o t.cur, h.yields \o t.yields)
    ELSE Walked("ok", <<h.val>> \o t.val, "", h.log \o t.log, <<h.val>> \o t.cur,
                h.yields \o t.yields)

\* the walk over a mapping as it would be if the results were stored in the
\* caller's mapping whatever inplace says
MapWalkStoring(o, inplace, r) ==
    IF r.st = "raise"
    THEN Walked("raise", VNone, r.exc, r.log,
                VMap([i \in 1..Len(o.v) |-> <<o.v[i][1], r.cur[i]>>]), r.yields)
    ELSE Walked("ok", VMap([i \in 1..Len(o.v) |-> <<o.v[i][1], r.val[i]>>]), "", r.log,
                VMap([i \in 1..Len(o.v) |-> <<o.v[i][1], r.val[i]>>]), r.yields)

\* the walk r over the values of the mapping o
MapWalk(o, inplace, r) ==
    IF r.st = "raise"
    THEN Walked("raise", VNone, r.exc, r.log,
                IF inplace THEN VMap([i \in 1..Len(o.v) |-> <<o.v[i][1], r.cur[i]>>]) ELSE o,
                r.yields)
    ELSE Walked("ok", VMap([i \in 1..Len(o.v) |-> <<o.v[i][1], r.val[i]>>]), "", r.log,
                IF inplace THEN VMap([i \in 1..Len(o.v) |-> <<o.v[i][1], r.val[i]>>]) ELSE o,
                r.yields)

\* the walk r over the members of the sequence o
SeqWalk(o, inplace, r) ==
    IF r.st = "raise"
    THEN Walked("raise", VNone, r.exc, r.log, IF inplace THEN VSeq(r.cur) ELSE o, r.yields)
    ELSE Walked("ok", VSeq(r.val), "", r.log, IF inplace THEN VSeq(r.val) ELSE o, r.yields)

RECURSIVE FuncLoad(_, _, _, _, _, _)
RECURSIVE FuncLoadItems(_, _, _, _, _, _)

\* the loop `for i, v in enumerate(obj): obj[i] = load(v, ...)` (and the
\* comprehension of the copying walk) over the members items
FuncLoadItems(items, loader_type, al, inplace, nested, depth) ==
    IF items = <<>> THEN Walked("ok", <<>>, "", <<>>, <<>>, <<>>)
    ELSE ConsWalk(items,
                  FuncLoad(Head(items), loader_type, al, inplace, nested, depth),
                  FuncLoadItems(Tail(items), loader_type, al, inplace, nested, depth))

\* load on a directive as it would be if the result of constructor.load
\* were returned without being walked, whatever nested says
FuncLoadDataShallow(o, d, loader_type, al, inplace, nested, depth) ==
    IF d.st = "raise" THEN Walked("raise", VNone, d.exc, d.log, o, <<>>)
    ELSE Walked("ok", d.val, "", d.log, o, <<>>)

\* load on a directive o, d being the outcome of constructor.load on it
FuncLoadData(o, d, loader_type, al, inplace, nested, depth) ==
    IF d.st = "raise" THEN Walked("raise", VNone, d.exc, d.log, o, <<>>)
    ELSE IF ~nested THEN Walked("ok", d.val, "", d.log, o, <<>>)
    ELSE IF depth >= MaxDepth THEN Walked("raise", VNone, "RecursionError", d.log, o, <<>>)
    ELSE Relog(d.log, o, FuncLoad(d.val, loader_type, al, inplace, nested, depth + 1))

\* load(obj, loader_type, constructor, inplace, nested)
FuncLoad(o, loader_type, al, inplace, nested, depth) ==
    CASE o.k = "data" ->
            FuncLoadData(o, Load(o, loader_type, al, 0), loader_type, al, inplace, nested, depth)
      [] o.k = "map" ->
            MapWalk(o, inplace,
                    FuncLoadItems([i \in 1..Len(o.v) |-> o.v[i][2]],
                                  loader_type, al, inplace, nested, depth))
      [] o.k = "seq" ->
            SeqWalk(o, inplace, FuncLoadItems(o.v, loader_type, al, inplace, nested, depth))
      [] OTHER -> Walked("ok", o, "", <<>>, o, <<>>)

RECURSIVE LazyLoad(_, _, _, _, _)
RECURSIVE LazyLoadItems(_, _, _, _, _)

\* the loop `for i, v in enumerate(obj): obj[i] = yield from lazy_load(v, ...)`:
\* what the inner generators yield is yielded on, what they return is stored
LazyLoadItems(items, loader_type, al, nested, depth) ==
    IF items = <<>> THEN Walked("ok", <<>>, "", <<>>, <<>>, <<>>)
    ELSE ConsWalk(items,
                  LazyLoad(Head(items), loader_type, al, nested, depth),
                  LazyLoadItems(Tail(items), loader_type, al, nested, depth))

\* lazy_load on a directive as it would be if the result of constructor.load
\* were returned without being walked, whatever nested says
LazyLoadDataShallow(o, d, loader_type, al, nested, depth) ==
    IF d.st = "raise" THEN Walked("raise", VNone, d.exc, d.log, o, <<>>)
    ELSE Walked("ok", d.val, "", d.log, o, <<>>)

\* lazy_load on a directive o, d being the outcome of constructor.load on it:
\* the result is returned, or `yield from` hands on what the generator over
\* the result yields
LazyLoadData(o, d, loader_type, al, nested, depth) ==
    IF d.st = "raise" THEN Walked("raise", VNone, d.exc, d.log, o, <<>>)
    ELSE IF ~nested THEN Walked("ok", d.val, "", d.log, o, <<>>)
    ELSE IF depth >= MaxDepth THEN Walked("raise", VNone, "RecursionError", d.log, o, <<>>)
    ELSE Relog(d.log, o, LazyLoad(d.val, loader_type, al, nested, depth + 1))

\* the generator lazy_load(obj, loader_type, constructor, nested) driven to
\* its end: val is the value it returns, yields the values it yields
LazyLoad(o, loader_type, al, nested, depth) ==
    CASE o.k = "data" ->
            LazyLoadData(o, Load(o, loader_type, al, 0), loader_type, al, nested, depth)
      [] o.k = "map" ->
            MapWalk(o, TRUE,
                    LazyLoadItems([i \in 1..Len(o.v) |-> o.v[i][2]],
                                  loader_type, al, nested, depth))
      [] o.k = "seq" ->
            SeqWalk(o, TRUE, LazyLoadItems(o.v, loader_type, al, nested, depth))
      [] OTHER -> Walked("ok", o, "", <<>>, o, <<>>)

(***************************************************************************)
(* Representer.__call__                                                    *)
(***************************************************************************)
\* the node the representer emits for a Data: what the loader constructs
\* again when the dumped text is parsed
Represent(data) ==
    IF data.mapping_params # <<>>
    THEN NInc(VMap(<< <<VStr(K_urlpath), data.urlpath>> >> \o data.mapping_params))
    ELSE IF data.sequence_params # <<>>
    THEN NInc(VSeq(<<data.urlpath>> \o data.sequence_params))
    ELSE NInc(data.urlpath)

(***************************************************************************)
(* The file system and the remote store of the model                       *)
(***************************************************************************)
K_name == <<"n", "a", "m", "e">>
K_x == <<"x">>
K_y == <<"y">>

P_a == <<"a">>
P_aa == <<"a", "a">>
P_b == <<"b">>
P_i == <<"i">>
P_n == <<"n">>
P_s == <<"s">>
P_t == <<"t">>
P_m == <<"m">>
P_z == <<"z">>
P_d_a == <<"d", "/", "a">>
P_a_a == <<"a", "/", "a">>
P_d_x == <<"d", "/", "x">>
P_c_a == <<"c", "/", "a">>
P_c_b == <<"c", "/", "b">>
U_a == <<"a", ":", "a">>
U_aa == <<"a", ":", "a", "a">>
U_m == <<"a", ":", "m">>
U_d_a == <<"a", ":", "d", "/", "a">>
U_d_x == <<"a", ":", "d", "/", "x">>

\* the local files: two sequences, a mapping, an integer, a text, a document
\* with includes inside it, a document that is one include, and files
\* below the directories d and a, the last of which includes a file that
\* does not exist, and two files below c that include each other
Files0 ==
    (P_a :> NVal(VSeq(<<VInt(1), VInt(2)>>)))
    @@ (P_aa :> NVal(VSeq(<<VInt(3)>>)))
    @@ (P_b :> NVal(VMap(<< <<VStr(K_name), VStr(<<"1">>)>> >>)))
    @@ (P_i :> NVal(VInt(7)))
    @@ (P_s :> NVal(VStr(<<"h", "i">>)))
    @@ (P_n :> NMap(<< <<VStr(K_x), NInc(VStr(P_a))>>,
                      <<VStr(K_y), NSeq(<<NInc(VStr(P_b)), NVal(VInt(0))>>)>> >>))
    @@ (P_t :> NInc(VStr(P_aa)))
    @@ (P_d_a :> NVal(VSeq(<<VInt(9)>>)))
    @@ (P_a_a :> NVal(VSeq(<<VInt(8)>>)))
    @@ (P_d_x :> NInc(VStr(P_m)))
    @@ (P_c_a :> NInc(VStr(P_c_b)))
    @@ (P_c_b :> NInc(VStr(P_c_a)))

\* the remote documents
Remote0 ==
    (U_a :> NVal(VSeq(<<VInt(4)>>)))
    @@ (U_aa :> NVal(VSeq(<<VInt(5), VInt(6)>>)))
    @@ (U_d_a :> NVal(VSeq(<<VInt(4)>>)))
    @@ (U_d_x :> NInc(VStr(P_m)))

\* the order in which the backends list what they hold
Listing0 ==
    <<P_t, P_aa, P_a, P_b, P_i, P_n, P_s, P_d_a, P_d_x, P_a_a, P_c_a, P_c_b,
      U_aa, U_a, U_d_a, U_d_x>>

(***************************************************************************)
(* The documents parsed in the model                                       *)
(***************************************************************************)
W_a == <<"a", "*">>
W_b == <<"b", "*">>
W_i == <<"i", "*">>
W_s == <<"s", "*">>
W_t == <<"t", "*">>
W_z == <<"z", "*">>
W_all == <<"*">>
W_u == <<"a", ":", "*">>
W_d == <<"d", "/", "*">>
W_ud == <<"a", ":", "d", "/", "*">>
K_list == <<"l", "i", "s", "t">>
K_dict == <<"d", "i", "c", "t">>
K_nested == <<"n", "e", "s", "t", "e", "d">>
K_file1 == <<"f", "i", "l", "e", "1">>
K_file2 == <<"f", "i", "l", "e", "2">>
T_boo1 == <<"b", "o", "o", "1">>
T_boo2 == <<"b", "o", "o", "2">>
T_r == <<"r">>

\* !inc {urlpath: target, flatten: flag}
IncFlat(target, flag) ==
    NInc(VMap(<< <<VStr(K_urlpath), VStr(target)>>, <<VStr(K_flatten), flag>> >>))

\* !inc {urlpath: target, default: value}
IncDefault(target, value) ==
    NInc(VMap(<< <<VStr(K_urlpath), VStr(target)>>, <<VStr(K_default), value>> >>))

\* the include tags of the documents: scalar, sequence and mapping form
Tags ==
    {NInc(VStr(t)) : t \in {P_a, P_n, P_t, P_m, W_a, W_t, W_z, U_a, U_m, W_u,
                             P_d_x, U_d_x, W_d, W_ud, P_c_a, P_c_b}}
    \cup {IncFlat(t, VBool(TRUE)) : t \in {W_a, W_b, W_i, W_s, W_t, W_u}}
    \cup {IncFlat(W_all, VStr(T_yes)), IncFlat(W_a, VBool(FALSE))}
    \cup {IncDefault(P_m, VStr(T_boo1)), IncDefault(P_a, VStr(T_boo1))}
    \cup {NInc(VSeq(<<VStr(W_a), VInt(1)>>)),
          NInc(VSeq(<<VStr(W_a), VStr(<<"1">>), VStr(T_r)>>)),
          NInc(VMap(<< <<VStr(K_urlpath), VStr(W_a)>>,
                       <<VStr(K_glob), VMap(<< <<VStr(K_maxdepth), VStr(<<"2">>)>> >>)>>,
                       <<VStr(K_open), VMap(<< <<VStr(K_mode), VStr(T_r)>> >>)>> >>))}

\* documents holding several tags inside mappings and sequences
DocTest ==
    NMap(<< <<VStr(K_list), NSeq(<<NInc(VStr(P_a)), NInc(VStr(P_aa))>>)>>,
            <<VStr(K_dict), NMap(<< <<VStr(K_x), NInc(VStr(P_a))>>,
                                    <<VStr(K_y), NInc(VStr(P_b))>> >>)>> >>)
DocNested == NMap(<< <<VStr(K_nested), NInc(VStr(P_n))>> >>)
DocTwoDefaults ==
    NMap(<< <<VStr(K_file1), IncDefault(P_m, VStr(T_boo1))>>,
            <<VStr(K_file2), IncDefault(P_z, VStr(T_boo2))>> >>)
DocOneMissing ==
    NSeq(<<NInc(VStr(P_a)), NInc(VStr(P_m)), NInc(VStr(P_aa))>>)
DocMixed ==
    NSeq(<<NInc(VStr(P_a)), NVal(VInt(5)), IncFlat(W_t, VBool(TRUE))>>)
DocPlain == NVal(VMap(<< <<VStr(K_x), VInt(1)>> >>))
DocPartial == NMap(<< <<VStr(K_list), NInc(VStr(W_d))>> >>)

Docs ==
    Tags \cup {DocTest, DocNested, DocTwoDefaults, DocOneMissing, DocMixed, DocPlain, DocPartial}

\* the loader classes documents are parsed with
LoaderTypes == {"SafeLoader", "Loader"}

(***************************************************************************)
(* The operations                                                          *)
(***************************************************************************)
\* the arguments managed_autoload is entered with: a bool, a falsy int, a truthy text
AutoloadArgs == {VBool(TRUE), VInt(0), VStr(P_a)}

\* deepest nesting of managed_autoload blocks
MaxNest == 2

\* the record of an operation: what was called, on what, with which loader
\* class and under which autoload, the document the tree came from, and the
\* outcome w
Res(op, doc, arg, loader_type, al, inplace, nested, w) ==
    [op |-> op, doc |-> doc, arg |-> arg, loader_type |-> loader_type, al |-> al,
     inplace |-> inplace, nested |-> nested,
     st |-> w.st, val |-> w.val, exc |-> w.exc, log |-> w.log, yields |-> w.yields]

NoRes ==
    Res("none", NVal(VNone), VNone, "", TRUE, FALSE, FALSE,
        Walked("ok", VNone, "", <<>>, VNone, <<>>))

\* with constructor.managed_autoload(a): the block is entered
managed_autoload_enter(a) ==
    /\ Len(saved) < MaxNest
    /\ saved' = Append(saved, autoload)
    /\ autoload' = Truthy(a)
    /\ entered' = Append(entered, [was |-> autoload, arg |-> a])
    /\ res' = NoRes
    /\ obj' = VNone
    /\ UNCHANGED <<base_dir, custom_loader, files, remote, listing, threads>>

\* the block as it would be left without the finally clause: an exception
\* skips the restore
managed_autoload_exit_no_finally(how) ==
    /\ saved # <<>>
    /\ how = "raise" => res.st = "raise"
    /\ autoload' = IF how = "raise" THEN autoload ELSE saved[Len(saved)]
    /\ saved' = SubSeq(saved, 1, Len(saved) - 1)
    /\ entered' = SubSeq(entered, 1, Len(entered) - 1)
    /\ res' = Res("exit", NVal(VNone), VNone, "", autoload, FALSE, FALSE,
                  Walked(IF how = "raise" THEN "raise" ELSE "ok",
                         VBool(entered[Len(entered)].was),
                         IF how = "raise" THEN res.exc ELSE "", <<>>, VNone, <<>>))
    /\ obj' = VNone
    /\ UNCHANGED <<base_dir, custom_loader, files, remote, listing, threads>>

\* the block is left, by falling off its end (how = "return") or by the
\* exception of the operation that failed inside it (how = "raise"): the
\* finally clause restores autoload.  The record keeps the autoload of the
\* block that is left and, as val, the autoload in force when it was entered.
\* A tree parsed as the last thing in the block is still held by the caller
\* after it.
managed_autoload_exit(how) ==
    /\ saved # <<>>
    /\ how = "raise" => res.st = "raise"
    /\ autoload' = saved[Len(saved)]
    /\ saved' = SubSeq(saved, 1, Len(saved) - 1)
    /\ entered' = SubSeq(entered, 1, Len(entered) - 1)
    /\ res' = Res("exit", NVal(VNone), VNone, "", autoload, FALSE, FALSE,
                  Walked(IF how = "raise" THEN "raise" ELSE "ok",
                         VBool(entered[Len(entered)].was),
                         IF how = "raise" THEN res.exc ELSE "", <<>>, VNone, <<>>))
    /\ obj' = IF how = "return" /\ res.op = "yaml.load" /\ res.st = "ok" THEN obj ELSE VNone
    /\ UNCHANGED <<base_dir, custom_loader, files, remote, listing, threads>>

\* an outcome of parsing as the outcome of an operation
AsWalked(r) == Walked(r.st, r.val, r.exc, r.log, VNone, <<>>)

\* yaml.load(doc, loader_type), the constructor being registered for the tag;
\* what a parse does depends on nothing an earlier parse or walk left, so a
\* document is parsed at the start or after the autoload setting was changed
yaml_load(doc, loader_type) ==
    /\ res.op \in {"none", "enter", "exit"}
    /\ res' = Res("yaml.load", doc, VNone, loader_type, autoload, FALSE, FALSE,
                  AsWalked(Construct(doc, loader_type, autoload, 0)))
    /\ obj' = IF res'.st = "ok" THEN res'.val ELSE VNone
    /\ UNCHANGED <<autoload, saved, entered, base_dir, custom_loader, files, remote, listing, threads>>

\* the caller holds a tree that yaml.load returned: the last operation was
\* that parse, or the end of the managed_autoload block it was made in
HoldsTree ==
    \/ res.op = "yaml.load" /\ res.st = "ok"
    \/ res.op = "exit" /\ obj # VNone

\* load(obj, loader_type, constructor, inplace, nested) on the tree the last
\* yaml.load returned; obj is then the tree as the caller holds it
func_load(loader_type, inplace, nested) ==
    /\ HoldsTree
    /\ res' = Res("load", res.doc, obj, loader_type, autoload, inplace, nested,
                  FuncLoad(obj, loader_type, autoload, inplace, nested, 0))
    /\ obj' = FuncLoad(obj, loader_type, autoload, inplace, nested, 0).cur
    /\ UNCHANGED <<autoload, saved, entered, base_dir, custom_loader, files, remote, listing, threads>>

\* for _ in lazy_load(obj, loader_type, constructor, nested): pass
lazy_load(loader_type, nested) ==
    /\ HoldsTree
    /\ res' = Res("lazy_load", res.doc, obj, loader_type, autoload, TRUE, nested,
                  LazyLoad(obj, loader_type, autoload, nested, 0))
    /\ obj' = LazyLoad(obj, loader_type, autoload, nested, 0).cur
    /\ UNCHANGED <<autoload, saved, entered, base_dir, custom_loader, files, remote, listing, threads>>

Init ==
    /\ autoload \in BOOLEAN
    /\ saved = <<>>
    /\ entered = <<>>
    /\ base_dir = NoBase
    /\ custom_loader = FALSE
    /\ files = Files0
    /\ remote = Remote0
    /\ listing = Listing0
    /\ obj = VNone
    /\ res = NoRes
    /\ threads = NoThreads

Next ==
    \/ \E a \in AutoloadArgs : managed_autoload_enter(a)
    \/ \E how \in {"return", "raise"} : managed_autoload_exit(how)
    \/ \E doc \in Docs, lt \in LoaderTypes : yaml_load(doc, lt)
    \/ \E lt \in LoaderTypes, inplace \in BOOLEAN, nested \in BOOLEAN : func_load(lt, inplace, nested)
    \/ \E lt \in LoaderTypes, nested \in BOOLEAN : lazy_load(lt, nested)

Spec == Init /\ [][Next]_vars

(***************************************************************************)
(* Properties of the tag handler, of managed_autoload and of the walkers   *)
(***************************************************************************)
\* the outcome part of the record of the last operation
Outcome == Walked(res.st, res.val, res.exc, res.log, VNone, <<>>)

\* the directive the tag handler builds for the tag node
DirectiveOf(tag) == TagData(tag.v).val

\* the tag node builds a directive whose effective path has no wildcard and
\* names nothing the backends hold
MissingTarget(tag) ==
    /\ TagData(tag.v).st = "ok"
    /\ DirectiveOf(tag).urlpath.k = "str"
    /\ ~HasWildcard(EffectivePath(DirectiveOf(tag).urlpath.v))
    /\ EffectivePath(DirectiveOf(tag).urlpath.v) \notin (DOMAIN files \cup DOMAIN remote)

\* C2: with autoload on, the tag handler returns (or raises) exactly what
\* load produces for the directive of the tag; with autoload off it returns
\* the directive itself and no backend call is made while the document is
\* parsed.
C2_HandlerFollowsAutoload ==
    /\ (res.op = "yaml.load" /\ res.doc \in Tags /\ TagData(res.doc.v).st = "ok") =>
          IF res.al
          THEN Outcome = AsWalked(Load(DirectiveOf(res.doc), res.loader_type, TRUE, 0))
          ELSE res.st = "ok" /\ res.val = DirectiveOf(res.doc)
    /\ (res.op = "yaml.load" /\ ~res.al) => res.log = <<>>

\* a wildcard tag parsed with autoload off: the directive comes back unresolved
C2_Witness ==
    /\ res.op = "yaml.load" /\ ~res.al
    /\ res.doc = NInc(VStr(W_a))
    /\ res.val = Data(VStr(W_a), FALSE, <<>>, <<>>)

C7_DefaultReturned ==
    /\ (res.op = "yaml.load" /\ res.al /\ res.doc = IncDefault(P_m, VStr(T_boo1))) =>
          res.st = "ok" /\ res.val = VStr(T_boo1)
    /\ (res.op = "yaml.load" /\ res.al /\ res.doc = DocTwoDefaults) =>
          /\ res.st = "ok"
          /\ res.val = VMap(<< <<VStr(K_file1), VStr(T_boo1)>>, <<VStr(K_file2), VStr(T_boo2)>> >>)

\* C8: inside a managed_autoload(a) block autoload is bool(a), also after a
\* block nested in it was left; when a block has just been left, by its end
\* or by an exception, autoload is the value in force when it was entered.
C8_ManagedAutoload ==
    /\ entered # <<>> => autoload = Truthy(entered[Len(entered)].arg)
    /\ res.op = "exit" => autoload = res.val.v

\* an inner block that turned autoload on inside a block that had it off is
\* left by an exception
C8_Witness ==
    /\ res.op = "exit" /\ res.st = "raise"
    /\ res.al /\ ~autoload
    /\ Len(saved) = 1

RECURSIVE CountData(_)
RECURSIVE CountDataIn(_)
\* the number of directives in the members items
CountDataIn(items) ==
    IF items = <<>> THEN 0 ELSE CountData(Head(items)) + CountDataIn(Tail(items))

\* the number of directives the tree o holds
CountData(o) ==
    CASE o.k = "data" -> 1
      [] o.k = "seq" -> CountDataIn(o.v)
      [] o.k = "map" -> CountDataIn([i \in 1..Len(o.v) |-> o.v[i][2]])
      [] OTHER -> 0

\* C9: the generator of lazy_load yields once for each directive it
\* resolves: exhausted over a tree of k directives (not following the
\* directives of the included documents) it has yielded k times.
C9_YieldPerDirective ==
    (res.op = "lazy_load" /\ res.st = "ok" /\ ~res.nested) =>
        Len(res.yields) = CountData(res.arg)

\* C10: load(obj, nested=True) on the tree parsed with autoload off returns
\* the value the same document parses to with autoload on.
C10_DeferredEqualsAuto ==
    (/\ res.op = "load" /\ res.nested
     /\ AsWalked(Construct(res.doc, res.loader_type, FALSE, 0)).val = res.arg
     /\ Construct(res.doc, res.loader_type, TRUE, 0).st = "ok") =>
        /\ res.st = "ok"
        /\ res.val = Construct(res.doc, res.loader_type, TRUE, 0).val

\* the parses of included files among the events of log
Parses(log) == SelectSeq(log, LAMBDA e : e.op = "yaml.load")

\* C13: with no custom_loader, every yaml.load issued for an included file
\* while a document is parsed with autoload on, at every depth of nesting,
\* is given the loader class of the document's own loader: a document
\* parsed with SafeLoader has none of its included files parsed by Loader.
C13_LoaderTypeInherited ==
    (res.op = "yaml.load" /\ ~custom_loader) =>
        \A i \in 1..Len(Parses(res.log)) :
            Parses(res.log)[i].args = <<LoaderType(res.loader_type)>>

\* a document parsed with SafeLoader includes a file that includes two more:
\* three parses, the deeper two issued by the loader of the included file
C13_Witness ==
    /\ res.op = "yaml.load" /\ res.al /\ res.st = "ok"
    /\ res.loader_type = "SafeLoader"
    /\ res.doc = DocNested
    /\ Len(Parses(res.log)) = 3
    /\ Parses(res.log)[3].args = <<LoaderType("SafeLoader")>>

\* the paths on which the call e opens a handle, in order: a failed open
\* gives none
Opens(e) ==
    CASE e.op = "fs.open" -> IF e.path \in DOMAIN files THEN <<e.path>> ELSE <<>>
      [] e.op = "fsspec.open" -> IF e.path \in DOMAIN remote THEN <<e.path>> ELSE <<>>
      [] e.op = "fsspec.open_files" -> open_files_expand(e.path)
      [] OTHER -> <<>>

\* the open handles without the one opened last on path
WithoutLast(open, path) ==
    IF \A i \in 1..Len(open) : open[i] # path THEN open
    ELSE LET last == CHOOSE i \in 1..Len(open) :
                        open[i] = path /\ \A j \in (i + 1)..Len(open) : open[j] # path
         IN  SubSeq(open, 1, last - 1) \o SubSeq(open, last + 1, Len(open))

\* the handles h after the event e: open the paths of the handles still
\* open, one entry per handle, sound whether every close was of a handle
\* that was open
HandlesAfter(h, e) ==
    IF e.op = "close"
    THEN [open |-> WithoutLast(h.open, e.path),
          sound |-> h.sound /\ \E i \in 1..Len(h.open) : h.open[i] = e.path]
    ELSE [open |-> h.open \o Opens(e), sound |-> h.sound]

RECURSIVE Handles(_)
\* the handles the events of log leave
Handles(log) ==
    IF log = <<>> THEN [open |-> <<>>, sound |-> TRUE]
    ELSE HandlesAfter(Handles(SubSeq(log, 1, Len(log) - 1)), log[Len(log)])

\* C14: when a parse, a load or a walk has returned or raised, every handle
\* that a Constructor.load opened during it, in any of the four branches,
\* has been closed, also when parsing the opened file raised.
C14_HandlesClosed ==
    res.op \in {"yaml.load", "load", "lazy_load"} =>
        Handles(res.log).open = <<>> /\ Handles(res.log).sound

\* a wildcard include whose second file fails to parse: the handle on that
\* file was opened, the parse raised, and the handle is closed
C14_Witness ==
    /\ res.op = "yaml.load" /\ res.al
    /\ res.doc = NInc(VStr(W_d))
    /\ res.st = "raise" /\ res.exc = "FileNotFoundError"
    /\ \E i \in 1..Len(res.log) : res.log[i].op = "fs.open" /\ res.log[i].path = P_d_x
    /\ res.log[Len(res.log)] = Ev("close", P_d_x, <<>>, <<>>)

RECURSIVE FirstFailure(_, _, _)
\* the error of the first of the matched paths whose open or parse fails
\* (the empty string when none does), store being the backend's files
FirstFailure(store, paths, loader_type) ==
    IF paths = <<>> THEN ""
    ELSE IF OpenAndLoad(store, Head(paths), loader_type, TRUE, 0).st = "raise"
    THEN OpenAndLoad(store, Head(paths), loader_type, TRUE, 0).exc
    ELSE FirstFailure(store, Tail(paths), loader_type)

\* the files a wildcard target resolves to
Matched(target) ==
    IF urlsplit(target).scheme # <<>> THEN open_files_expand(EffectivePath(target))
    ELSE fs_glob(as_posix(EffectivePath(target)))

\* C15: when the open or the parse of a file matched by a wildcard include
\* fails, the include raises that error and returns no list: the values of
\* the files parsed before the failing one are not returned, and the parse
\* of the document that holds the include has no result.
C15_NoPartialList ==
    /\ (/\ res.op = "yaml.load" /\ res.al /\ res.doc \in Tags
        /\ res.doc.v.k = "str"
        /\ HasWildcard(EffectivePath(res.doc.v.v))
        /\ FirstFailure(IF urlsplit(res.doc.v.v).scheme # <<>> THEN remote ELSE files,
                        Matched(res.doc.v.v), res.loader_type) # "") =>
          /\ res.st = "raise" /\ res.val = VNone /\ obj = VNone
          /\ res.exc = FirstFailure(IF urlsplit(res.doc.v.v).scheme # <<>> THEN remote ELSE files,
                                    Matched(res.doc.v.v), res.loader_type)
    /\ (res.op = "yaml.load" /\ res.al /\ res.doc = DocPartial) =>
          res.st = "raise" /\ res.val = VNone /\ obj = VNone

\* the second of two matched files fails to parse after the first was
\* parsed: nothing is returned
C15_Witness ==
    /\ res.op = "yaml.load" /\ res.al /\ res.doc = NInc(VStr(W_d))
    /\ fs_glob(W_d) = <<P_d_a, P_d_x>>
    /\ Len(Parses(res.log)) = 2
    /\ res.st = "raise" /\ res.val = VNone

RECURSIVE Substituted(_, _, _, _)
\* the tree o with every directive replaced by its resolution: by what
\* constructor.load returns for it, walked in turn when nested is set
Substituted(o, loader_type, al, nested) ==
    CASE o.k = "data" ->
            IF nested /\ Load(o, loader_type, al, 0).st = "ok"
            THEN Substituted(Load(o, loader_type, al, 0).val, loader_type, al, nested)
            ELSE Load(o, loader_type, al, 0).val
      [] o.k = "map" ->
            VMap([i \in 1..Len(o.v) |->
                    <<o.v[i][1], Substituted(o.v[i][2], loader_type, al, nested)>>])
      [] o.k = "seq" ->
            VSeq([i \in 1..Len(o.v) |-> Substituted(o.v[i], loader_type, al, nested)])
      [] OTHER -> o

\* C19: load with inplace=False leaves the tree the caller holds as it was,
\* whether it returns or raises, and returns the tree with every directive
\* replaced by its resolution; load with inplace=True on a mapping or a
\* sequence returns that container, which then holds the resolutions.
C19_InplaceFrame ==
    res.op = "load" =>
        /\ ~res.inplace => obj = res.arg
        /\ res.st = "ok" =>
              res.val = Substituted(res.arg, res.loader_type, res.al, res.nested)
        /\ (res.inplace /\ res.st = "ok" /\ res.arg.k \in {"map", "seq"}) => obj = res.val

\* a copying load over a tree of four directives: the caller's tree still
\* holds them, the returned tree holds none
C19_Witness ==
    /\ res.op = "load" /\ ~res.inplace /\ ~res.nested /\ res.st = "ok"
    /\ res.doc = DocTest
    /\ CountData(res.arg) = 4
    /\ obj = res.arg
    /\ CountData(res.val) = 0

RECURSIVE InnerData(_, _)
RECURSIVE InnerDataIn(_, _)
\* the number of directives written in the files that the directives of
\* the tree o include: what the content of those files holds when it is
\* parsed without resolving anything
InnerData(o, loader_type) ==
    CASE o.k = "data" -> CountData(Load(o, loader_type, FALSE, 0).val)
      [] o.k = "seq" -> InnerDataIn(o.v, loader_type)
      [] o.k = "map" -> InnerDataIn([i \in 1..Len(o.v) |-> o.v[i][2]], loader_type)
      [] OTHER -> 0
InnerDataIn(items, loader_type) ==
    IF items = <<>> THEN 0
    ELSE InnerData(Head(items), loader_type) + InnerDataIn(Tail(items), loader_type)

\* C20 as stated: with nested=false load resolves only the directives of
\* obj, so the directives written in the included files stay in the
\* result as unresolved Data; with nested=true the returned value holds no
\* Data at any depth.
C20_NestedFlag ==
    (res.op = "load" /\ res.st = "ok") =>
        IF res.nested THEN CountData(res.val) = 0
        ELSE CountData(res.val) = InnerData(res.arg, res.loader_type)

\* C20, amended: the directives written in the included files stay
\* unresolved under nested=false when the constructor's autoload is off
\* while load runs (with autoload on, the tag handler resolves them as each
\* included file is parsed); with nested=true the returned value holds no
\* Data at any depth.
C20_NestedFlagAutoloadOff ==
    (res.op = "load" /\ res.st = "ok") =>
        /\ res.nested => CountData(res.val) = 0
        /\ (~res.nested /\ ~res.al) => CountData(res.val) = InnerData(res.arg, res.loader_type)

\* a tree whose one directive includes a file holding two directives,
\* loaded with nested=false and autoload off: both are in the result
C20_Witness ==
    /\ res.op = "load" /\ ~res.nested /\ ~res.al /\ res.st = "ok"
    /\ res.doc = DocNested
    /\ CountData(res.arg) = 1
    /\ CountData(res.val) = 2

\* the tree is built of dict and list containers only (every mapping and
\* sequence of the model is one), so it holds no custom-loader object
PlainTree(o) == o.k \in {"data", "map", "seq", "none", "bool", "int", "str"}

\* C11: the lazy_load generator run to exhaustion leaves the caller's tree
\* as load(obj, loader_type, constructor, inplace=True) with the same nested
\* flag leaves it, returns (or raises) the same, and has made the same
\* constructor.load calls, seen by their backend calls and parses, in the
\* same order.
C11_LazyRefinesInplace ==
    (res.op = "lazy_load" /\ PlainTree(res.arg)) =>
        /\ obj = FuncLoad(res.arg, res.loader_type, res.al, TRUE, res.nested, 0).cur
        /\ res.log = FuncLoad(res.arg, res.loader_type, res.al, TRUE, res.nested, 0).log
        /\ res.st = FuncLoad(res.arg, res.loader_type, res.al, TRUE, res.nested, 0).st
        /\ res.val = FuncLoad(res.arg, res.loader_type, res.al, TRUE, res.nested, 0).val
        /\ res.exc = FuncLoad(res.arg, res.loader_type, res.al, TRUE, res.nested, 0).exc

\* a nested walk over a tree whose directives include a file that holds
\* directives of its own: the included file is walked too
C11_Witness ==
    /\ res.op = "lazy_load" /\ res.nested /\ ~res.al /\ res.st = "ok"
    /\ res.doc = DocNested
    /\ CountData(res.arg) > 0
    /\ CountData(obj) = 0
    /\ Len(BackendCalls(res.log)) >= 3

(***************************************************************************)
(* Constructor.load on its own: every target up to MaxLen characters,      *)
(* under several base directories and option shapes                        *)
(***************************************************************************)
\* the base directories of the constructor: none, a literal, one holding a
\* wildcard, one computed by a callable
BaseDirs == {NoBase, Literal(<<"a">>), Literal(<<"*">>), Callable(<<"a">>)}

\* the flatten flag and the options a directive carries besides its target
DirectiveOptions ==
    {[flatten |-> FALSE, sequence_params |-> <<>>, mapping_params |-> <<>>],
     [flatten |-> TRUE, sequence_params |-> <<VInt(1)>>, mapping_params |-> <<>>],
     [flatten |-> FALSE, sequence_params |-> <<>>,
      mapping_params |-> << <<VStr(K_open), VInt(0)>> >>]}

\* constructor.load(loader_type, Data(target, ...)) called once by the program
resolve(target, opt, loader_type) ==
    /\ res.op = "none"
    /\ res' = Res("Constructor.load", NVal(VNone),
                  Data(VStr(target), opt.flatten, opt.sequence_params, opt.mapping_params),
                  loader_type, autoload, FALSE, FALSE,
                  AsWalked(Load(Data(VStr(target), opt.flatten, opt.sequence_params,
                                     opt.mapping_params),
                                loader_type, autoload, 0)))
    /\ UNCHANGED <<autoload, saved, entered, base_dir, custom_loader, files, remote, listing, obj, threads>>

InitResolve ==
    /\ autoload = FALSE
    /\ saved = <<>>
    /\ entered = <<>>
    /\ base_dir \in BaseDirs
    /\ custom_loader \in BOOLEAN
    /\ files = Files0
    /\ remote = Remote0
    /\ listing = Listing0
    /\ obj = VNone
    /\ res = NoRes
    /\ threads = NoThreads

\* the path and the branch of a load do not depend on the loader class: the
\* targets are resolved for one
NextResolve ==
    \E target \in Texts(MaxLen), opt \in DirectiveOptions :
        resolve(target, opt, "SafeLoader")

SpecResolve == InitResolve /\ [][NextResolve]_vars

\* the text holds one of the characters * ? [ ]
ContainsWildcard(s) == \E i \in 1..Len(s) : s[i] \in WildcardChars

\* the backend operations of the calls of log, in order
CallOps(log) == [i \in 1..Len(log) |-> log[i].op]

\* the calls of log are the calls of the no-scheme wildcard branch on
\* pattern: one fs.glob, then one fs.open per path it returned, in order,
\* all of them when the load returned and the first ones when it raised
GlobThenOpens(log, pattern, returned) ==
    IF log = <<>> THEN returned
    ELSE /\ log[1].op = "fs.glob" /\ log[1].path = pattern
         /\ Len(log) <= 1 + Len(fs_glob(pattern))
         /\ returned => Len(log) = 1 + Len(fs_glob(pattern))
         /\ \A i \in 2..Len(log) :
               log[i].op = "fs.open" /\ log[i].path = fs_glob(pattern)[i - 1]

\* the calls of the last Constructor.load are those of the branch that
\* has_scheme and has_wildcard select for the effective path
BranchTaken(has_scheme, has_wildcard, path) ==
    CASE has_scheme /\ has_wildcard ->
            CallOps(BackendCalls(res.log)) = <<"fsspec.open_files">> /\ BackendCalls(res.log)[1].path = path
      [] has_scheme /\ ~has_wildcard ->
            CallOps(BackendCalls(res.log)) = <<"fsspec.open">> /\ BackendCalls(res.log)[1].path = path
      [] ~has_scheme /\ has_wildcard ->
            /\ GlobThenOpens(BackendCalls(res.log), as_posix(path), res.st = "raise")
            /\ BackendCalls(res.log) = <<>> => ~(GlobCall(ParamPlan(res.arg.sequence_params,
                                                       res.arg.mapping_params).glob,
                                            as_posix(path)).st = "ok"
                                   /\ OpenCall(ParamPlan(res.arg.sequence_params,
                                                         res.arg.mapping_params).open).st = "ok")
      [] OTHER ->
            CallOps(BackendCalls(res.log)) = <<"fs.open">> /\ BackendCalls(res.log)[1].path = path

\* C1: the calls Constructor.load makes are those of the branch selected by
\* the scheme of the target and by whether the effective path contains one
\* of the characters * ? [ ].
C1_BranchByWildcardCharacter ==
    res.op = "Constructor.load" =>
        BranchTaken(urlsplit(res.arg.urlpath.v).scheme # <<>>,
                    ContainsWildcard(EffectivePath(res.arg.urlpath.v)),
                    EffectivePath(res.arg.urlpath.v))

\* the same with the test the code makes: the effective path matches
\* WILDCARDS_PATTERN
BranchByPattern ==
    res.op = "Constructor.load" =>
        BranchTaken(urlsplit(res.arg.urlpath.v).scheme # <<>>,
                    HasWildcard(EffectivePath(res.arg.urlpath.v)),
                    EffectivePath(res.arg.urlpath.v))

\* the path of the first backend call of the last load
HandedPath == BackendCalls(res.log)[1].path

\* the path the backend is to be handed for target: the target itself
\* without a base_dir, the base (a callable one having been called) joined
\* with the target, and for a URL the same scheme, host and query around the
\* base joined with the URL's path
ClaimedPath(target) ==
    IF base_dir.kind = "none" THEN target
    ELSE IF urlsplit(target).scheme = <<>> THEN as_posix(joinpath(base_dir.v, target))
    ELSE urlunsplit(urlsplit(target).scheme, urlsplit(target).netloc,
                    as_posix(joinpath(base_dir.v, urlsplit(target).path)),
                    urlsplit(target).query)

\* C16 as stated: the path handed to the backend is the target unchanged
\* when base_dir is None, base_dir joined with the target in forward-slash
\* form when the target has no scheme, and otherwise the URL of the same
\* scheme and host whose path is base_dir joined with the URL's path.
C16_PathHandedToBackend ==
    (res.op = "Constructor.load" /\ BackendCalls(res.log) # <<>>) =>
        HandedPath = ClaimedPath(res.arg.urlpath.v)

\* C16, amended: as stated, except that in the no-scheme wildcard branch
\* the pattern handed to fs.glob is the path in pathlib's forward-slash
\* form, which without a base_dir need not be the target as written.
C16_PathHandedNormalised ==
    (res.op = "Constructor.load" /\ BackendCalls(res.log) # <<>>) =>
        HandedPath =
            IF /\ urlsplit(res.arg.urlpath.v).scheme = <<>>
               /\ BackendCalls(res.log)[1].op = "fs.glob"
            THEN as_posix(ClaimedPath(res.arg.urlpath.v))
            ELSE ClaimedPath(res.arg.urlpath.v)

\* a URL resolved under a base directory computed by a callable: the base
\* is joined into the path of the URL, behind its scheme
C16_Witness ==
    /\ res.op = "Constructor.load"
    /\ base_dir = Callable(<<"a">>)
    /\ res.arg.urlpath = VStr(<<"a", ":", "a">>)
    /\ BackendCalls(res.log) # <<>>
    /\ HandedPath = <<"a", ":", "a", "/", "a">>

\* the options of the directive of the last load prepare a glob call and
\* an open call without an error
OptionsAccepted ==
    /\ GlobCall(ParamPlan(res.arg.sequence_params, res.arg.mapping_params).glob,
                as_posix(EffectivePath(res.arg.urlpath.v))).st = "ok"
    /\ OpenCall(ParamPlan(res.arg.sequence_params, res.arg.mapping_params).open).st = "ok"

\* C21: when fs.glob returns no path for a no-scheme wildcard target, load
\* returns an empty list, raises nothing and opens nothing; a
\* FileNotFoundError comes only from a load whose effective path has no
\* wildcard.
C21_EmptyGlobEmptyList ==
    /\ (/\ res.op = "Constructor.load"
        /\ urlsplit(res.arg.urlpath.v).scheme = <<>>
        /\ HasWildcard(EffectivePath(res.arg.urlpath.v))
        /\ OptionsAccepted
        /\ fs_glob(as_posix(EffectivePath(res.arg.urlpath.v))) = <<>>) =>
          /\ res.st = "ok" /\ res.val = VSeq(<<>>)
          /\ Len(BackendCalls(res.log)) = 1
          /\ BackendCalls(res.log)[1].op = "fs.glob"
    /\ (res.op = "Constructor.load" /\ res.exc = "FileNotFoundError") =>
          ~HasWildcard(EffectivePath(res.arg.urlpath.v))

\* the pattern ??? matches no file: one fs.glob, an empty list
C21_Witness ==
    /\ res.op = "Constructor.load" /\ base_dir = NoBase
    /\ res.arg.urlpath = VStr(<<"?", "?", "?">>)
    /\ res.arg.sequence_params = <<>> /\ res.arg.mapping_params = <<>>
    /\ res.st = "ok" /\ res.val = VSeq(<<>>)
    /\ Len(res.log) = 1

\* what the custom loader returns for each of paths when the path it is
\* given is told, or the path itself where told is empty, store being the
\* backend's files
CustomValues(store, paths, told, loader_type) ==
    [i \in 1..Len(paths) |->
        CustomLoaded(IF told = <<>> THEN paths[i] ELSE told, store[paths[i]], loader_type)]

\* C23: a configured custom_loader is called once for each opened file,
\* with the loader class, and what it returns is the value of the file; the
\* path it is told is the target as written in the include statement in
\* the two single-file branches and in the scheme wildcard branch, and the
\* file name fs.glob returned in the no-scheme wildcard branch.
C23_CustomLoaderArguments ==
    (/\ res.op = "Constructor.load" /\ custom_loader /\ res.st = "ok" /\ ~res.arg.flatten) =>
        IF ~HasWildcard(EffectivePath(res.arg.urlpath.v))
        THEN res.val = CustomValues(files @@ remote, <<EffectivePath(res.arg.urlpath.v)>>,
                                    res.arg.urlpath.v, res.loader_type)[1]
        ELSE IF urlsplit(res.arg.urlpath.v).scheme # <<>>
        THEN res.val = VSeq(CustomValues(remote, open_files_expand(EffectivePath(res.arg.urlpath.v)),
                                         res.arg.urlpath.v, res.loader_type))
        ELSE res.val = VSeq(CustomValues(files, fs_glob(as_posix(EffectivePath(res.arg.urlpath.v))),
                                         <<>>, res.loader_type))

(***************************************************************************)
(* Constructor.load over the options of a directive: positional and        *)
(* keyword options of every shape, given together or alone                 *)
(***************************************************************************)
\* what a directive gives as its glob option and as its open option
GlobOptions ==
    {VNone, VInt(1), VStr(T_r), VSeq(<<VInt(1)>>), VSeq(<<VStr(<<"3">>)>>),
     VMap(<< <<VStr(K_maxdepth), VStr(<<"2">>)>> >>)}
OpenOptions == {VNone, VInt(0), VStr(T_r), VMap(<< <<VStr(K_mode), VStr(T_r)>> >>)}

\* the sequence_params of a directive: none, one, two or three of them
SequenceOptions ==
    {<<>>} \cup {<<g>> : g \in GlobOptions}
    \cup {<<g, o>> : g \in GlobOptions, o \in OpenOptions}
    \cup {<<g, o, VInt(9)>> : g \in GlobOptions, o \in OpenOptions}

\* the mapping_params of a directive: with and without the keys glob and open
MappingOptions ==
    {<<>>, << <<VStr(K_x), VInt(1)>> >>}
    \cup {<< <<VStr(K_glob), g>> >> : g \in GlobOptions}
    \cup {<< <<VStr(K_open), o>> >> : o \in OpenOptions}
    \cup {<< <<VStr(K_glob), g>>, <<VStr(K_open), o>> >> : g \in GlobOptions, o \in OpenOptions}

\* the targets: a pattern that matches, one that matches nothing, a plain
\* path, a remote pattern
OptionTargets == {W_a, W_z, P_a, W_u}

\* int() written into a container of glob options: over maxdepth of a
\* mapping, over the first member of a list; a failed int() writes nothing
CoercedInPlace(c) ==
    CASE c.k = "map" ->
            IF HasKey(c.v, VStr(K_maxdepth)) /\ IntOf(Get(c.v, VStr(K_maxdepth))).ok
            THEN VMap([i \in 1..Len(c.v) |->
                          IF c.v[i][1] = VStr(K_maxdepth)
                          THEN <<c.v[i][1], VInt(IntOf(c.v[i][2]).n)>> ELSE c.v[i]])
            ELSE c
      [] c.k = "seq" ->
            IF c.v # <<>> /\ IntOf(c.v[1]).ok
            THEN VSeq([i \in 1..Len(c.v) |-> IF i = 1 THEN VInt(IntOf(c.v[1]).n) ELSE c.v[i]])
            ELSE c
      [] OTHER -> c

\* the containers as they would be if the call were prepared in the
\* container the directive holds
GlobHeapAliased(glob_params) ==
    [held |-> CoercedInPlace(glob_params), args |-> CoercedInPlace(glob_params)]

\* the two containers once glob_fn is prepared: held is the one the
\* directive holds; args is the new one ({**glob_params}, list(glob_params))
\* that gets the members of held and then the int() written into it
GlobHeap(glob_params) ==
    [held |-> glob_params, args |-> CoercedInPlace(glob_params)]

\* the directive as its holder sees it after load(data): only the
\* no-scheme wildcard branch writes to a container at all
DirectiveAfter(data) ==
    IF urlsplit(data.urlpath.v).scheme # <<>> \/ ~HasWildcard(EffectivePath(data.urlpath.v))
    THEN data
    ELSE IF data.sequence_params # <<>>
    THEN [data EXCEPT !.sequence_params =
              [i \in 1..Len(data.sequence_params) |->
                  IF i = 1 THEN GlobHeap(data.sequence_params[1]).held
                  ELSE data.sequence_params[i]]]
    ELSE [data EXCEPT !.mapping_params =
              [i \in 1..Len(data.mapping_params) |->
                  IF data.mapping_params[i][1] = VStr(K_glob)
                  THEN <<VStr(K_glob), GlobHeap(data.mapping_params[i][2]).held>>
                  ELSE data.mapping_params[i]]]

\* constructor.load(loader_type, Data(target, sequence_params=sp,
\* mapping_params=mp)) called once by the program, which holds the
\* directive afterwards
load_with_options(target, sp, mp, loader_type) ==
    /\ res.op = "none"
    /\ obj' = DirectiveAfter(Data(VStr(target), FALSE, sp, mp))
    /\ res' = Res("Constructor.load", NVal(VNone), Data(VStr(target), FALSE, sp, mp),
                  loader_type, autoload, FALSE, FALSE,
                  AsWalked(Load(Data(VStr(target), FALSE, sp, mp), loader_type, autoload, 0)))
    /\ UNCHANGED <<autoload, saved, entered, base_dir, custom_loader, files, remote, listing, threads>>

InitOptions ==
    /\ autoload = FALSE
    /\ saved = <<>>
    /\ entered = <<>>
    /\ base_dir = NoBase
    /\ custom_loader = FALSE
    /\ files = Files0
    /\ remote = Remote0
    /\ listing = Listing0
    /\ obj = VNone
    /\ res = NoRes
    /\ threads = NoThreads

NextOptions ==
    \E target \in OptionTargets, sp \in SequenceOptions, mp \in MappingOptions,
       lt \in LoaderTypes :
        load_with_options(target, sp, mp, lt)

SpecOptions == InitOptions /\ [][NextOptions]_vars

\* the glob option and the open option as the order of precedence gives
\* them: VNone stands for the defaults
ChosenGlob(sp, mp) ==
    IF Len(sp) >= 1 THEN sp[1]
    ELSE IF Len(mp) >= 1 THEN Get(mp, VStr(K_glob))
    ELSE VNone
ChosenOpen(sp, mp) ==
    IF Len(sp) >= 2 THEN sp[2]
    ELSE IF Len(sp) = 1 THEN VNone
    ELSE IF Len(mp) >= 1 THEN Get(mp, VStr(K_open))
    ELSE VNone

\* the backend calls of the last load are one fs.glob made with the glob
\* option g followed by fs.open calls made with the open option o, or none
\* at all when preparing either call raised
CallsMadeWith(g, o, pattern) ==
    IF GlobCall(g, pattern).st = "ok" /\ OpenCall(o).st = "ok"
    THEN /\ BackendCalls(res.log) # <<>>
         /\ BackendCalls(res.log)[1] = GlobCall(g, pattern).val
         /\ \A i \in 2..Len(BackendCalls(res.log)) :
               /\ BackendCalls(res.log)[i].op = "fs.open"
               /\ BackendCalls(res.log)[i].args = OpenCall(o).val.args
               /\ BackendCalls(res.log)[i].kwargs = OpenCall(o).val.kwargs
    ELSE res.st = "raise" /\ res.log = <<>>

\* C12: in the no-scheme wildcard branch the glob and open options come
\* from sequence_params when it is non-empty (first element the glob
\* option, second the open option, further elements ignored, defaults for a
\* missing second), else from the keys glob and open of mapping_params,
\* else both calls use their defaults; mapping_params is not consulted when
\* sequence_params is non-empty.
C12_OptionPrecedence ==
    (/\ res.op = "Constructor.load"
     /\ urlsplit(res.arg.urlpath.v).scheme = <<>>
     /\ HasWildcard(EffectivePath(res.arg.urlpath.v))) =>
        CallsMadeWith(ChosenGlob(res.arg.sequence_params, res.arg.mapping_params),
                      ChosenOpen(res.arg.sequence_params, res.arg.mapping_params),
                      as_posix(EffectivePath(res.arg.urlpath.v)))

\* three positional options together with keyword options: the glob is
\* made with the first, the files are opened with the second, and neither
\* the third nor the keyword options reach a call
C12_Witness ==
    /\ res.op = "Constructor.load" /\ res.st = "ok"
    /\ res.arg.urlpath = VStr(W_a)
    /\ res.arg.sequence_params = <<VInt(1), VStr(T_r), VInt(9)>>
    /\ res.arg.mapping_params = << <<VStr(K_glob), VSeq(<<VInt(1)>>)>>, <<VStr(K_open), VInt(0)>> >>
    /\ Len(BackendCalls(res.log)) = 3
    /\ BackendCalls(res.log)[1].kwargs = << <<VStr(K_maxdepth), VInt(1)>> >>
    /\ BackendCalls(res.log)[2].kwargs = << <<VStr(K_mode), VStr(T_r)>> >>

(***************************************************************************)
(* The no-scheme wildcard branch over generated directories: up to         *)
(* MaxFiles files, each a sequence of up to MaxItems members or a document *)
(* that is no sequence, listed by the backend in either order              *)
(***************************************************************************)
MaxFiles == 3
MaxItems == 2

\* the names the files of a generated directory take
FlatPaths == <<P_a, P_aa, P_b, <<"a", "b">>, <<"b", "b">>, <<"b", "a">>>>
FlatCount == IF MaxFiles < Len(FlatPaths) THEN MaxFiles ELSE Len(FlatPaths)
IndexOf(path) == CHOOSE i \in 1..Len(FlatPaths) : FlatPaths[i] = path

\* the document of the i-th file: for kind >= 0 a sequence of kind members,
\* each telling its file and its place; otherwise a mapping, a text or a number
FileDoc(i, kind) ==
    CASE kind >= 0 -> NVal(VSeq([j \in 1..kind |-> VInt(10 * i + j)]))
      [] kind = -1 -> NVal(VMap(<< <<VStr(K_name), VInt(10 * i)>> >>))
      [] kind = -2 -> NVal(VStr(<<"h", "i">>))
      [] OTHER -> NVal(VInt(10 * i))

Reversed(seq) == [i \in 1..Len(seq) |-> seq[Len(seq) + 1 - i]]

\* constructor.load(loader_type, Data(pattern, flatten)) called once
glob_load(pattern, flatten, loader_type) ==
    /\ res.op = "none"
    /\ res' = Res("Constructor.load", NVal(VNone), Data(VStr(pattern), flatten, <<>>, <<>>),
                  loader_type, autoload, FALSE, FALSE,
                  AsWalked(Load(Data(VStr(pattern), flatten, <<>>, <<>>),
                                loader_type, autoload, 0)))
    /\ UNCHANGED <<autoload, saved, entered, base_dir, custom_loader, files, remote, listing, obj, threads>>

InitFlatten ==
    /\ autoload = TRUE
    /\ saved = <<>>
    /\ entered = <<>>
    /\ base_dir = NoBase
    /\ custom_loader = FALSE
    /\ \E present \in SUBSET (1..FlatCount) :
          \E kind \in [present -> (-3)..MaxItems] :
              files = [path \in {FlatPaths[i] : i \in present} |->
                          FileDoc(IndexOf(path), kind[IndexOf(path)])]
    /\ remote = Remote0
    /\ listing \in {SubSeq(FlatPaths, 1, FlatCount), Reversed(SubSeq(FlatPaths, 1, FlatCount))}
    /\ obj = VNone
    /\ res = NoRes
    /\ threads = NoThreads

NextFlatten ==
    \E pattern \in {W_all, W_a}, flatten \in BOOLEAN, lt \in LoaderTypes :
        glob_load(pattern, flatten, lt)

SpecFlatten == InitFlatten /\ [][NextFlatten]_vars

\* the paths fs.glob returned to the last Constructor.load
Returned == fs_glob(as_posix(EffectivePath(res.arg.urlpath.v)))

\* the value the file at path holds
Parsed(path) == files[path].v

\* every returned file holds a sequence
AllSequences == \A i \in 1..Len(Returned) : Parsed(Returned[i]).k = "seq"

RECURSIVE SumLen(_)
\* the members of the first n returned files, counted
SumLen(n) == IF n = 0 THEN 0 ELSE SumLen(n - 1) + Len(Parsed(Returned[n]).v)

\* C4: when every file fs.glob returned parses to a sequence, load without
\* flatten returns the list of those sequences in the order fs.glob
\* returned the paths; with flatten it returns one list as long as all of
\* them together, the j-th member of the i-th file standing right after
\* the members of the files before it.
C4_FlattenLaw ==
    (res.op = "Constructor.load" /\ AllSequences) =>
        /\ res.st = "ok" /\ res.val.k = "seq"
        /\ ~res.arg.flatten =>
              res.val.v = [i \in 1..Len(Returned) |-> Parsed(Returned[i])]
        /\ res.arg.flatten =>
              /\ Len(res.val.v) = SumLen(Len(Returned))
              /\ \A i \in 1..Len(Returned) :
                    \A j \in 1..Len(Parsed(Returned[i]).v) :
                        res.val.v[SumLen(i - 1) + j] = Parsed(Returned[i]).v[j]

\* three files listed in descending order, the first with no member, are
\* flattened
C4_Witness ==
    /\ res.op = "Constructor.load" /\ res.arg.flatten /\ res.st = "ok"
    /\ AllSequences
    /\ Len(Returned) = 3 /\ Returned[1] = P_b
    /\ Parsed(Returned[1]).v = <<>>
    /\ Len(res.val.v) = 3

\* C5: with flatten set, a returned file that parses to something other
\* than a sequence makes load raise.
C5_NonSequenceRaises ==
    (res.op = "Constructor.load" /\ res.arg.flatten /\ ~AllSequences) => res.st = "raise"

(***************************************************************************)
(* Dumping a directive and parsing the dumped tag again                    *)
(***************************************************************************)
\* what a mapping tag may give for flatten, nothing included
FlattenGiven ==
    {VNone, VBool(TRUE), VBool(FALSE), VStr(T_yes), VStr(T_no), VStr(T_r), VInt(3)}

\* the options a mapping tag may carry besides urlpath and flatten
ExtraOptions ==
    {<<>>,
     << <<VStr(K_glob), VMap(<< <<VStr(K_maxdepth), VInt(1)>> >>)>> >>,
     << <<VStr(K_open), VMap(<< <<VStr(K_mode), VStr(T_r)>> >>)>> >>,
     << <<VStr(K_open), VMap(<< <<VStr(K_mode), VStr(T_r)>> >>)>>,
        <<VStr(K_glob), VMap(<< <<VStr(K_maxdepth), VInt(1)>> >>)>> >>,
     << <<VStr(K_default), VStr(T_boo1)>> >>}

\* the pairs of the mapping tag {urlpath: target, flatten: given, **extra}
MappingTag(target, given, extra) ==
    << <<VStr(K_urlpath), VStr(target)>> >>
    \o (IF given = VNone THEN <<>> ELSE << <<VStr(K_flatten), given>> >>)
    \o extra

\* the values of the tag nodes handed to the tag handler: scalars,
\* sequences and mappings, well formed or not
TagValues ==
    {VStr(P_a), VStr(W_a), VStr(U_a), VInt(1)}
    \cup {VSeq(<<>>), VSeq(<<VStr(W_a)>>), VSeq(<<VStr(W_a), VInt(1)>>),
          VSeq(<<VStr(W_a), VMap(<< <<VStr(K_maxdepth), VInt(1)>> >>), VStr(T_r)>>)}
    \cup {VSeq(<<VStr(P_a), VStr(T_r)>>),
          VSeq(<<VStr(U_a), VStr(T_r), VInt(1)>>),
          VSeq(<<VStr(W_u), VMap(<< <<VStr(K_maxdepth), VInt(1)>> >>), VStr(T_r)>>)}
    \cup {VMap(MappingTag(t, g, e)) :
             t \in {P_a, W_a, U_a, W_u}, g \in FlattenGiven, e \in ExtraOptions}
    \cup {VStr(<<>>), VMap(<< <<VStr(K_urlpath), VStr(<<>>)>> >>)}
    \cup {VMap(<< <<VStr(K_flatten), VBool(TRUE)>> >>),
          VMap(<< <<VStr(K_urlpath), VStr(W_a)>>, <<VInt(1), VInt(1)>> >>),
          VMap(<< <<VStr(K_urlpath), VStr(W_a)>>, <<VStr(<<"1">>), VInt(1)>> >>)}

\* the tag handler runs on a tag node
tag_call(v, loader_type) ==
    /\ res.op = "none"
    /\ res' = Res("__call__", NInc(v), VNone, loader_type, autoload, FALSE, FALSE,
                  AsWalked(Call(v, loader_type, autoload, 0)))
    /\ UNCHANGED <<autoload, saved, entered, base_dir, custom_loader, files, remote, listing, obj, threads>>

\* yaml.dump of the directive the handler returned: the representer emits
\* the tag node that doc records; arg keeps the directive dumped
represent ==
    /\ res.op = "__call__" /\ res.st = "ok" /\ res.val.k = "data"
    /\ res' = Res("represent", Represent(res.val), res.val, res.loader_type, autoload, FALSE,
                  FALSE, Walked("ok", VNone, "", <<>>, VNone, <<>>))
    /\ UNCHANGED <<autoload, saved, entered, base_dir, custom_loader, files, remote, listing, obj, threads>>

\* yaml.load of the dumped text
reparse ==
    /\ res.op = "represent"
    /\ res' = Res("reparse", res.doc, res.arg, res.loader_type, autoload, FALSE, FALSE,
                  AsWalked(Construct(res.doc, res.loader_type, autoload, 0)))
    /\ UNCHANGED <<autoload, saved, entered, base_dir, custom_loader, files, remote, listing, obj, threads>>

InitTag ==
    /\ autoload \in BOOLEAN
    /\ saved = <<>>
    /\ entered = <<>>
    /\ base_dir = NoBase
    /\ custom_loader = FALSE
    /\ files = Files0
    /\ remote = Remote0
    /\ listing = Listing0
    /\ obj = VNone
    /\ res = NoRes
    /\ threads = NoThreads

NextTag ==
    \/ \E v \in TagValues, lt \in LoaderTypes : tag_call(v, lt)
    \/ represent
    \/ reparse

SpecTag == InitTag /\ [][NextTag]_vars

\* the directive parsed again has the target and the options of the one dumped
SameButFlatten ==
    res.op = "reparse" =>
        /\ res.st = "ok" /\ res.val.k = "data"
        /\ res.val.urlpath = res.arg.urlpath
        /\ res.val.sequence_params = res.arg.sequence_params
        /\ SameMapping(res.val.mapping_params, res.arg.mapping_params)

\* C3: a directive built by the tag handler, dumped by the representer and
\* parsed again with autoload off comes back with the same urlpath,
\* sequence_params, mapping_params (up to key order) and flatten flag.
C3_RoundTrip ==
    res.op = "reparse" =>
        /\ res.st = "ok" /\ res.val.k = "data"
        /\ res.val.urlpath = res.arg.urlpath
        /\ res.val.sequence_params = res.arg.sequence_params
        /\ SameMapping(res.val.mapping_params, res.arg.mapping_params)
        /\ res.val.flatten = res.arg.flatten

\* the flatten value of a mapping tag once a string is parsed as YAML
FlattenParsed(pairs) ==
    IF Get(pairs, VStr(K_flatten)).k = "str"
    THEN DEFAULT_YAML_LOAD_FUNCTION(Get(pairs, VStr(K_flatten)).v)
    ELSE Get(pairs, VStr(K_flatten))

\* the value of a tag node is malformed: a mapping whose flatten value is
\* no boolean after parsing, a mapping with a key that is no identifier
\* string, or a node that is neither scalar, sequence nor mapping
Malformed(v) ==
    \/ v.k = "map" /\ Get(v.v, VStr(K_flatten)) # VNone /\ FlattenParsed(v.v).k # "bool"
    \/ v.k = "map" /\ \E i \in 1..Len(v.v) : v.v[i][1].k # "str" \/ ~IsIdentifier(v.v[i][1].v)
    \/ v.k \notin {"str", "seq", "map"}

\* C17: on a malformed tag the handler raises before any backend call is
\* made for the tag, whether autoload is on or off.
C17_MalformedTagRaisesFirst ==
    (res.op = "__call__" /\ Malformed(res.doc.v)) =>
        /\ res.st = "raise"
        /\ res.exc \in {"ValueError", "TypeError", "KeyError"}
        /\ res.log = <<>>

\* with autoload on, a wildcard tag whose flatten is the integer 3 raises
\* ValueError and neither globs nor opens
C17_Witness ==
    /\ res.op = "__call__" /\ res.al
    /\ res.doc = NInc(VMap(MappingTag(W_a, VInt(3), <<>>)))
    /\ res.st = "raise" /\ res.exc = "ValueError"
    /\ res.log = <<>>

\* the pairs of a mapping tag other than urlpath and flatten, in order
OtherPairs(pairs) ==
    SelectSeq(pairs, LAMBDA kv : kv[1] \notin {VStr(K_urlpath), VStr(K_flatten)})

\* C18: the directive the handler builds (seen when autoload is off, where
\* it is returned) is Data(urlpath=scalar) with no options and flatten
\* false for a scalar node; urlpath the first element and sequence_params
\* the remaining elements in order for a sequence node; and for a mapping
\* node urlpath the value of the key urlpath, flatten the value of the key
\* flatten (a string parsed as YAML first, false when absent) and
\* mapping_params every other key, so never urlpath or flatten.
C18_DirectiveBuilt ==
    (res.op = "__call__" /\ ~res.al /\ res.st = "ok") =>
        /\ res.val.k = "data"
        /\ res.doc.v.k = "str" =>
              res.val = Data(res.doc.v, FALSE, <<>>, <<>>)
        /\ res.doc.v.k = "seq" =>
              /\ res.val.urlpath = res.doc.v.v[1]
              /\ res.val.sequence_params = SubSeq(res.doc.v.v, 2, Len(res.doc.v.v))
              /\ res.val.mapping_params = <<>>
              /\ res.val.flatten = FALSE
        /\ res.doc.v.k = "map" =>
              /\ res.val.urlpath = Get(res.doc.v.v, VStr(K_urlpath))
              /\ res.val.sequence_params = <<>>
              /\ res.val.mapping_params = OtherPairs(res.doc.v.v)
              /\ res.val.flatten = IF HasKey(res.doc.v.v, VStr(K_flatten))
                                   THEN FlattenParsed(res.doc.v.v).v ELSE FALSE
              /\ ~HasKey(res.val.mapping_params, VStr(K_urlpath))
              /\ ~HasKey(res.val.mapping_params, VStr(K_flatten))

\* a mapping tag with flatten given as the text "yes" and an open option:
\* flatten is true and the open option is the only mapping_params entry
C18_Witness ==
    /\ res.op = "__call__" /\ ~res.al /\ res.st = "ok"
    /\ res.doc = NInc(VMap(MappingTag(W_a, VStr(T_yes),
                                      << <<VStr(K_open), VMap(<< <<VStr(K_mode), VStr(T_r)>> >>)>> >>)))
    /\ res.val.flatten = TRUE
    /\ res.val.mapping_params = << <<VStr(K_open), VMap(<< <<VStr(K_mode), VStr(T_r)>> >>)>> >>

\* the positional and the keyword options a tag value carries besides its
\* target and its flatten flag
TagPositional(v) == IF v.k = "seq" THEN SubSeq(v.v, 2, Len(v.v)) ELSE <<>>
TagKeywords(v) == IF v.k = "map" THEN OtherPairs(v.v) ELSE <<>>

\* the target of a tag value the handler accepts
TagTarget(v) ==
    CASE v.k = "seq" -> v.v[1]
      [] v.k = "map" -> Get(v.v, VStr(K_urlpath))
      [] OTHER -> v

\* C22: outside the no-scheme wildcard branch, the one open or open_files
\* call of a tag resolved with autoload on carries all the positional
\* options and all the keyword options of the tag unchanged, the keys glob
\* and open among them; the keys urlpath and flatten of a mapping tag are
\* among the keyword options of no backend call.
C22_OptionsForwarded ==
    /\ (/\ res.op = "__call__" /\ res.al /\ TagData(res.doc.v).st = "ok"
        /\ ~(/\ urlsplit(TagTarget(res.doc.v).v).scheme = <<>>
             /\ HasWildcard(EffectivePath(TagTarget(res.doc.v).v)))) =>
          /\ BackendCalls(res.log) # <<>>
          /\ BackendCalls(res.log)[1].op \in {"fs.open", "fsspec.open", "fsspec.open_files"}
          /\ BackendCalls(res.log)[1].args = TagPositional(res.doc.v)
          /\ BackendCalls(res.log)[1].kwargs = TagKeywords(res.doc.v)
          /\ \A i \in 2..Len(BackendCalls(res.log)) :
                BackendCalls(res.log)[i].op \notin {"fsspec.open", "fsspec.open_files"}
    /\ res.op = "__call__" =>
          \A i \in 1..Len(BackendCalls(res.log)) :
              /\ ~HasKey(BackendCalls(res.log)[i].kwargs, VStr(K_urlpath))
              /\ ~HasKey(BackendCalls(res.log)[i].kwargs, VStr(K_flatten))

\* a mapping tag on a plain local file with flatten and an open option: the
\* open option reaches fs.open under its key, flatten does not
C22_Witness ==
    /\ res.op = "__call__" /\ res.al /\ res.st = "ok"
    /\ res.doc = NInc(VMap(MappingTag(P_a, VBool(TRUE),
                                      << <<VStr(K_open), VMap(<< <<VStr(K_mode), VStr(T_r)>> >>)>> >>)))
    /\ BackendCalls(res.log)[1] =
          Ev("fs.open", P_a, <<>>, << <<VStr(K_open), VMap(<< <<VStr(K_mode), VStr(T_r)>> >>)>> >>)

(***************************************************************************)
(* Two threads in managed_autoload on one Constructor                      *)
(***************************************************************************)
\* the threads that share the Constructor
Threads == {"t1", "t2"}

\* the document a thread parses inside its block
ThreadDoc == NInc(VStr(P_a))

\* no thread has entered its block; before is the autoload the Constructor
\* was made with
ThreadsAt(before) ==
    [pc |-> [t \in Threads |-> "idle"],
     arg |-> [t \in Threads |-> VNone],
     saved |-> [t \in Threads |-> before],
     seen |-> [t \in Threads |-> <<>>],
     writer |-> "",
     before |-> before]

\* saved, self.autoload = self.autoload, bool(autoload): the right-hand side
\* is evaluated first, self.autoload is read into the thread's local
thread_enter_read(t, a) ==
    /\ threads # NoThreads
    /\ threads.pc[t] = "idle"
    /\ threads' = [threads EXCEPT !.pc[t] = "read", !.arg[t] = a, !.saved[t] = autoload]
    /\ UNCHANGED <<autoload, saved, entered, base_dir, custom_loader, files, remote, listing, obj, res>>

\* ... and then self.autoload is assigned
thread_enter_write(t) ==
    /\ threads # NoThreads
    /\ threads.pc[t] = "read"
    /\ autoload' = Truthy(threads.arg[t])
    /\ threads' = [threads EXCEPT !.pc[t] = "inside", !.writer = t]
    /\ UNCHANGED <<saved, entered, base_dir, custom_loader, files, remote, listing, obj, res>>

\* the body of the block parses a document: the tag handler reads
\* self.autoload as it is at that moment
thread_parse(t, loader_type) ==
    /\ threads # NoThreads
    /\ threads.pc[t] = "inside"
    /\ threads.seen[t] = <<>>
    /\ threads' = [threads EXCEPT !.seen[t] = <<autoload>>]
    /\ res' = Res("yaml.load", ThreadDoc, VStr(<<t>>), loader_type, autoload, FALSE, FALSE,
                  AsWalked(Construct(ThreadDoc, loader_type, autoload, 0)))
    /\ obj' = IF res'.st = "ok" THEN res'.val ELSE VNone
    /\ UNCHANGED <<autoload, saved, entered, base_dir, custom_loader, files, remote, listing>>

\* the block as it would be left without the restore
thread_exit_no_restore(t) ==
    /\ threads # NoThreads
    /\ threads.pc[t] = "inside"
    /\ threads' = [threads EXCEPT !.pc[t] = "done", !.writer = t]
    /\ UNCHANGED <<autoload, saved, entered, base_dir, custom_loader, files, remote, listing, obj, res>>

\* finally: self.autoload = saved
thread_exit(t) ==
    /\ threads # NoThreads
    /\ threads.pc[t] = "inside"
    /\ autoload' = threads.saved[t]
    /\ threads' = [threads EXCEPT !.pc[t] = "done", !.writer = t]
    /\ UNCHANGED <<saved, entered, base_dir, custom_loader, files, remote, listing, obj, res>>

InitThreads ==
    /\ autoload \in BOOLEAN
    /\ saved = <<>>
    /\ entered = <<>>
    /\ base_dir = NoBase
    /\ custom_loader = FALSE
    /\ files = Files0
    /\ remote = Remote0
    /\ listing = Listing0
    /\ obj = VNone
    /\ res = NoRes
    /\ threads = ThreadsAt(autoload)

NextThreads ==
    \/ \E t \in Threads, a \in AutoloadArgs : thread_enter_read(t, a)
    \/ \E t \in Threads : thread_enter_write(t)
    \/ \E t \in Threads : thread_parse(t, "SafeLoader")
    \/ \E t \in Threads : thread_exit(t)

SpecThreads == InitThreads /\ [][NextThreads]_vars

\* every thread has left its block
AllLeft == \A t \in Threads : threads.pc[t] = "done"

\* the autoload values a parse in the block of thread t can meet: the one the
\* block set, the one another thread set on entering, the one another thread
\* restored on leaving
Observable(t) ==
    {Truthy(threads.arg[t])}
        \cup {Truthy(threads.arg[u]) : u \in {u \in Threads \ {t} : threads.pc[u] \in {"inside", "done"}}}
        \cup {threads.saved[u] : u \in {u \in Threads \ {t} : threads.pc[u] = "done"}}

\* C24: managed_autoload is not thread-safe.  Each thread restores what it
\* read on entry, whatever the other thread did since: after both blocks were
\* left, autoload is what the thread that left last had read on entry (which
\* is the other thread's setting when the blocks interleave, not the value
\* before either block), and a parse inside a block meets the autoload that
\* was assigned last, by its own block or by the other thread.
C24_NotThreadSafe ==
    /\ AllLeft => autoload = threads.saved[threads.writer]
    /\ \A t \in Threads : threads.seen[t] # <<>> => threads.seen[t][1] \in Observable(t)
    /\ res.op = "yaml.load" => res.al = threads.seen[res.arg.v[1]][1]

\* both blocks were left, autoload is not what it was before either was
\* entered, and a parse in one block ran under the setting of the other
C24_Witness ==
    /\ AllLeft
    /\ autoload # threads.before
    /\ \E t \in Threads :
           /\ threads.seen[t] # <<>>
           /\ threads.seen[t][1] # Truthy(threads.arg[t])
           /\ \E u \in Threads \ {t} : threads.seen[t][1] = Truthy(threads.arg[u])

(***************************************************************************)
(* Further properties of Constructor.load and of the walkers               *)
(***************************************************************************)
\* the positional and keyword arguments a glob option stands for by its
\* shape; strict: a bare scalar must convert to an integer
ShapedGlob(g, strict) ==
    CASE g.k = "none" -> [ok |-> TRUE, exc |-> "", args |-> <<>>, kwargs |-> <<>>]
      [] g.k = "map" ->
            IF HasKey(g.v, VStr(K_maxdepth)) /\ ~IntOf(Get(g.v, VStr(K_maxdepth))).ok
            THEN [ok |-> FALSE, exc |-> IntOf(Get(g.v, VStr(K_maxdepth))).exc,
                  args |-> <<>>, kwargs |-> <<>>]
            ELSE [ok |-> TRUE, exc |-> "", args |-> <<>>,
                  kwargs |-> [i \in 1..Len(g.v) |->
                                 IF g.v[i][1] = VStr(K_maxdepth)
                                 THEN <<g.v[i][1], VInt(IntOf(g.v[i][2]).n)>>
                                 ELSE g.v[i]]]
      [] g.k = "seq" ->
            IF g.v # <<>> /\ ~IntOf(g.v[1]).ok
            THEN [ok |-> FALSE, exc |-> IntOf(g.v[1]).exc, args |-> <<>>, kwargs |-> <<>>]
            ELSE [ok |-> TRUE, exc |-> "",
                  args |-> [i \in 1..Len(g.v) |-> IF i = 1 THEN VInt(IntOf(g.v[1]).n) ELSE g.v[i]],
                  kwargs |-> <<>>]
      [] OTHER ->
            IF IntOf(g).ok
            THEN [ok |-> TRUE, exc |-> "", args |-> <<>>,
                  kwargs |-> << <<VStr(K_maxdepth), VInt(IntOf(g).n)>> >>]
            ELSE IF ~strict /\ IntOf(g).exc = "ValueError"
            THEN [ok |-> TRUE, exc |-> "", args |-> <<>>,
                  kwargs |-> << <<VStr(K_maxdepth), VNone>> >>]
            ELSE [ok |-> FALSE, exc |-> IntOf(g).exc, args |-> <<>>, kwargs |-> <<>>]

\* the positional and keyword arguments an open option stands for by its
\* shape
ShapedOpen(o) ==
    CASE o.k = "none" -> [ok |-> TRUE, args |-> <<>>, kwargs |-> <<>>]
      [] o.k = "map" -> [ok |-> TRUE, args |-> <<>>, kwargs |-> o.v]
      [] o.k = "seq" -> [ok |-> TRUE, args |-> o.v, kwargs |-> <<>>]
      [] o.k = "str" -> [ok |-> TRUE, args |-> <<>>, kwargs |-> << <<VStr(K_mode), o>> >>]
      [] OTHER -> [ok |-> FALSE, args |-> <<>>, kwargs |-> <<>>]

\* the last load made its backend calls as the shapes sg and so say: the
\* error of a failed conversion and no call; else ValueError and no call for
\* an open option of no known shape; else one fs.glob and then fs.open calls
\* with the arguments the shapes give
CallsShaped(sg, so) ==
    IF ~sg.ok THEN res.st = "raise" /\ res.exc = sg.exc /\ res.log = <<>>
    ELSE IF ~so.ok THEN res.st = "raise" /\ res.exc = "ValueError" /\ res.log = <<>>
    ELSE /\ BackendCalls(res.log) # <<>>
         /\ BackendCalls(res.log)[1].op = "fs.glob"
         /\ BackendCalls(res.log)[1].args = sg.args
         /\ BackendCalls(res.log)[1].kwargs = sg.kwargs
         /\ \A i \in 2..Len(BackendCalls(res.log)) :
               /\ BackendCalls(res.log)[i].op = "fs.open"
               /\ BackendCalls(res.log)[i].args = so.args
               /\ BackendCalls(res.log)[i].kwargs = so.kwargs

\* the last operation resolved a directive in the no-scheme wildcard branch
InWildcardBranch ==
    /\ res.op = "Constructor.load"
    /\ urlsplit(res.arg.urlpath.v).scheme = <<>>
    /\ HasWildcard(EffectivePath(res.arg.urlpath.v))

\* C25 as stated: glob and open options are interpreted by shape - a mapping
\* as keyword arguments (maxdepth made an int for glob), a list as
\* positional arguments (the first made an int for glob), a bare scalar glob
\* option made an int and passed as maxdepth, a textual open option as the
\* mode - and an open option of any other shape raises ValueError before
\* fs.glob is called.
C25_OptionsByShape ==
    InWildcardBranch =>
        CallsShaped(ShapedGlob(ChosenGlob(res.arg.sequence_params, res.arg.mapping_params), TRUE),
                    ShapedOpen(ChosenOpen(res.arg.sequence_params, res.arg.mapping_params)))

\* C25, amended: as stated, except that a bare textual glob option that is
\* no number is not an error: fs.glob is then called with maxdepth=None.
C25_OptionsByShapeOrNone ==
    InWildcardBranch =>
        CallsShaped(ShapedGlob(ChosenGlob(res.arg.sequence_params, res.arg.mapping_params), FALSE),
                    ShapedOpen(ChosenOpen(res.arg.sequence_params, res.arg.mapping_params)))

\* the glob option is the text r and the open option the text r: the files
\* are listed with maxdepth=None and opened with mode r
C25_Witness ==
    /\ res.op = "Constructor.load" /\ res.st = "ok"
    /\ res.arg.urlpath = VStr(W_a)
    /\ res.arg.sequence_params = <<VStr(T_r), VStr(T_r)>>
    /\ Len(BackendCalls(res.log)) = 3
    /\ BackendCalls(res.log)[1].kwargs = << <<VStr(K_maxdepth), VNone>> >>
    /\ BackendCalls(res.log)[2].kwargs = << <<VStr(K_mode), VStr(T_r)>> >>

\* C26: load does not change the directive it is given, nor the lists and
\* mappings the directive holds as options (the int() of maxdepth is written
\* to a new container): after the call the holder has the directive as it
\* was given, the backend was given the converted options, and resolving
\* what the holder has gives the same outcome again.
C26_DirectiveUnchanged ==
    (res.op = "Constructor.load" /\ obj # VNone) =>
        /\ obj = res.arg
        /\ AsWalked(Load(obj, res.loader_type, res.al, 0)) =
               Walked(res.st, res.val, res.exc, res.log, VNone, <<>>)
        /\ (InWildcardBranch /\ BackendCalls(res.log) # <<>>
              /\ ChosenGlob(res.arg.sequence_params, res.arg.mapping_params).k \in {"map", "seq"}) =>
               LET passed == GlobHeap(ChosenGlob(res.arg.sequence_params, res.arg.mapping_params)).args
               IN  IF passed.k = "map"
                   THEN BackendCalls(res.log)[1].kwargs = passed.v
                   ELSE BackendCalls(res.log)[1].args = passed.v

\* fs.glob was called with maxdepth=2 and the directive still holds the
\* text "2" it was written with
C26_Witness ==
    /\ res.op = "Constructor.load" /\ res.st = "ok"
    /\ res.arg.urlpath = VStr(W_a)
    /\ res.arg.sequence_params = <<>>
    /\ BackendCalls(res.log)[1].kwargs = << <<VStr(K_maxdepth), VInt(2)>> >>
    /\ Get(obj.mapping_params, VStr(K_glob)) = VMap(<< <<VStr(K_maxdepth), VStr(<<"2">>)>> >>)

\* the tags that include one of the two files that include each other
CycleDocs == {NInc(VStr(P_c_a)), NInc(VStr(P_c_b))}

\* the last operation failed when the interpreter gave up, after at least
\* MaxDepth files had been opened one inside the other
GaveUp ==
    /\ res.st = "raise"
    /\ res.exc = "RecursionError"
    /\ Len(SelectSeq(res.log, LAMBDA e : e.op = "fs.open")) >= MaxDepth

\* C27: include cycles are not detected.  When A includes B and B includes
\* A, a parse of `!inc A` with autoload on, and a walk over the directive
\* with nested on, return no value: A and B are opened in turn, one inside
\* the other, as deep as the interpreter goes.  With autoload off the parse
\* returns the directive, and a walk with nested off under autoload off
\* returns the directive of the other file.
C27_CycleNotDetected ==
    res.doc \in CycleDocs =>
        /\ (res.op = "yaml.load" /\ res.al) => GaveUp
        /\ (res.op = "yaml.load" /\ ~res.al) => res.st = "ok" /\ res.val.k = "data"
        /\ (res.op \in {"load", "lazy_load"} /\ res.nested) => GaveUp
        /\ (res.op \in {"load", "lazy_load"} /\ ~res.nested /\ ~res.al) =>
               res.st = "ok" /\ res.val.k = "data" /\ res.val # res.arg
        /\ res.st = "raise" =>
               \A i \in 1..Len(SelectSeq(res.log, LAMBDA e : e.op = "fs.open")) :
                   SelectSeq(res.log, LAMBDA e : e.op = "fs.open")[i].path \in {P_c_a, P_c_b}

\* the parse of `!inc c/a` with autoload on opened c/a, c/b, c/a, ... and
\* ended in RecursionError
C27_Witness ==
    /\ res.op = "yaml.load" /\ res.al
    /\ res.doc = NInc(VStr(P_c_a))
    /\ GaveUp
    /\ SelectSeq(res.log, LAMBDA e : e.op = "fs.open")[1].path = P_c_a
    /\ SelectSeq(res.log, LAMBDA e : e.op = "fs.open")[2].path = P_c_b
    /\ SelectSeq(res.log, LAMBDA e : e.op = "fs.open")[3].path = P_c_a

\* C28: every directive the tag handler produces has a non-empty urlpath: a
\* tag with an empty target - an empty scalar, an empty sequence, a mapping
\* whose urlpath is missing or empty - produces no directive.
C28_UrlpathNonEmpty ==
    /\ (res.op = "__call__" /\ res.st = "ok" /\ res.val.k = "data") =>
           res.val.urlpath # VStr(<<>>)
    /\ (/\ res.op = "__call__"
        /\ \/ res.doc.v \in {VStr(<<>>), VSeq(<<>>)}
           \/ res.doc.v.k = "map" /\ Get(res.doc.v.v, VStr(K_urlpath)) \in {VNone, VStr(<<>>)}) =>
           res.st = "raise"

RECURSIVE PartlyResolved(_, _, _, _, _)
RECURSIVE PartlyResolvedItems(_, _, _, _, _)
\* the tree o as a walk that stores in place leaves it, failed telling
\* whether a directive visited earlier has raised: until then every directive
\* is replaced by its resolution, the one that raises and all after it stay
PartlyResolved(o, failed, loader_type, al, nested) ==
    IF failed THEN [tree |-> o, failed |-> TRUE]
    ELSE CASE o.k = "data" ->
                 IF FuncLoad(o, loader_type, al, TRUE, nested, 0).st = "raise"
                 THEN [tree |-> o, failed |-> TRUE]
                 ELSE [tree |-> FuncLoad(o, loader_type, al, TRUE, nested, 0).val,
                       failed |-> FALSE]
           [] o.k = "seq" ->
                 [tree |-> VSeq(PartlyResolvedItems(o.v, FALSE, loader_type, al, nested).items),
                  failed |-> PartlyResolvedItems(o.v, FALSE, loader_type, al, nested).failed]
           [] o.k = "map" ->
                 [tree |-> VMap([i \in 1..Len(o.v) |->
                                   <<o.v[i][1],
                                     PartlyResolvedItems([j \in 1..Len(o.v) |-> o.v[j][2]], FALSE,
                                                         loader_type, al, nested).items[i]>>]),
                  failed |-> PartlyResolvedItems([j \in 1..Len(o.v) |-> o.v[j][2]], FALSE,
                                                 loader_type, al, nested).failed]
           [] OTHER -> [tree |-> o, failed |-> FALSE]
PartlyResolvedItems(items, failed, loader_type, al, nested) ==
    IF items = <<>> THEN [items |-> <<>>, failed |-> failed]
    ELSE LET h == PartlyResolved(Head(items), failed, loader_type, al, nested)
             t == PartlyResolvedItems(Tail(items), h.failed, loader_type, al, nested)
         IN  [items |-> <<h.tree>> \o t.items, failed |-> t.failed]

\* C29: when resolving a directive raises during load(obj, inplace=True),
\* nothing is rolled back: the caller's containers hold the resolutions of
\* the directives visited before the failure, in traversal order, and the
\* failing directive and those after it are still directives; with
\* inplace=False the caller's tree is as it was.
C29_NoRollback ==
    (res.op = "load" /\ res.st = "raise") =>
        /\ res.val = VNone
        /\ res.inplace =>
              /\ PartlyResolved(res.arg, FALSE, res.loader_type, res.al, res.nested).failed
              /\ obj = PartlyResolved(res.arg, FALSE, res.loader_type, res.al, res.nested).tree
        /\ ~res.inplace => obj = res.arg

\* the second of three directives names a missing file: after the failed
\* in-place load the caller's list holds the content of the first file, then
\* the second and the third directive
C29_Witness ==
    /\ res.op = "load" /\ res.inplace /\ res.st = "raise" /\ res.exc = "FileNotFoundError"
    /\ res.doc = DocOneMissing
    /\ ~res.al
    /\ res.arg = VSeq(<<Data(VStr(P_a), FALSE, <<>>, <<>>), Data(VStr(P_m), FALSE, <<>>, <<>>),
                        Data(VStr(P_aa), FALSE, <<>>, <<>>)>>)
    /\ obj = VSeq(<<VSeq(<<VInt(1), VInt(2)>>), Data(VStr(P_m), FALSE, <<>>, <<>>),
                    Data(VStr(P_aa), FALSE, <<>>, <<>>)>>)

\* the outcome of resolving the directive of the last load with its flatten
\* flag set to flag
WithFlatten(flag) ==
    AsWalked(Load([res.arg EXCEPT !.flatten = flag], res.loader_type, res.al, 0))

\* C30: the flatten flag affects only the no-scheme wildcard branch: in the
\* other three branches the outcome of load is the same with flatten true
\* and with flatten false, and for a target with a scheme and a wildcard the
\* result is a list with one member per file opened, flattened or not.
C30_FlattenOnlyLocalWildcard ==
    (res.op = "Constructor.load" /\ ~InWildcardBranch) =>
        /\ Walked(res.st, res.val, res.exc, res.log, VNone, <<>>) = WithFlatten(TRUE)
        /\ WithFlatten(TRUE) = WithFlatten(FALSE)
        /\ (/\ urlsplit(res.arg.urlpath.v).scheme # <<>>
            /\ HasWildcard(EffectivePath(res.arg.urlpath.v))
            /\ res.st = "ok") =>
               /\ res.val.k = "seq"
               /\ Len(res.val.v) = Len(open_files_expand(EffectivePath(res.arg.urlpath.v)))
               /\ custom_loader \/
                      \A i \in 1..Len(res.val.v) :
                          res.val.v[i] =
                              Construct(remote[open_files_expand(EffectivePath(res.arg.urlpath.v))[i]],
                                        res.loader_type, res.al, 1).val

\* a:* resolved with flatten set: the two remote files, each a list, come
\* back as a list of two lists
C30_Witness ==
    /\ res.op = "Constructor.load" /\ res.st = "ok"
    /\ res.arg.urlpath = VStr(W_u)
    /\ res.arg.flatten
    /\ ~custom_loader
    /\ res.val = VSeq(<<VSeq(<<VInt(5), VInt(6)>>), VSeq(<<VInt(4)>>)>>)


============================================================================
